---- MODULE Spec2Model ----
(***************************************************************************)
(* WeepHub routine scheduler and dispatch engine (server.js, the revision   *)
(* with routines, encrypted integrations and settings).                     *)
(*                                                                          *)
(* The server is one Node.js process: every handler runs on one thread and  *)
(* is cut at its `await`s.  An action of this module is one such segment    *)
(* (the code between two awaits), so the interleavings of the model are the *)
(* interleavings the event loop can produce.  A file read or write is one   *)
(* atomic step, taken at some moment between its call and its completion.   *)
(* Every Date.now()/new Date() of one segment reads the same instant.       *)
(* The process runs in UTC (toTimeString, getDay and toDateString are       *)
(* computed from the epoch milliseconds without a zone offset).             *)
(***************************************************************************)
EXTENDS Integers, Sequences, FiniteSets, TLC

VARIABLES
    now,                    \* the wall clock, epoch milliseconds
    file,                   \* routines.json: the sequence of routine records
    routineRunTracker,      \* Map routine id -> last fired slot key
    routineIntervalMs,      \* the active tick period
    routineIntervalHandle,  \* the handle of the repeating timer, 0 = null
    timers,                 \* the repeating timers the runtime holds
    settings,               \* settings.json: its routineCheckIntervalMs, a JSON value
    passes,                 \* evaluateRoutines() calls in flight
    runs,                   \* runRoutineActions() calls in flight
    reqs,                   \* HTTP requests in flight and their responses
    log,                    \* activity.log: the appended entries
    sources,                \* integrations.json, entries as the accessor returns them
    integrations,           \* integrations.json: smartthings.entries as stored
    upserts,                \* requests on /api/integrations/smartthings in flight
    vault,                  \* one use of the vault: a secret, its blob, its opening
    dispatch,               \* one remote dispatch: its requests on the wire, its outcome
    envToken,               \* whether SMARTTHINGS_TOKEN is set in the environment
    launched,               \* history: the scheduler's launches of runRoutineActions
                            \*   in the clock's current slot (date + HH:MM)
    epoch,                  \* history: the number of process starts
    edits                   \* history: the number of PATCH requests served

vars == <<now, file, routineRunTracker, routineIntervalMs, routineIntervalHandle,
          timers, settings, passes, runs, reqs, log, sources, integrations, upserts,
          vault, dispatch, envToken, launched, epoch, edits>>

timerVars == <<routineIntervalMs, routineIntervalHandle, timers, settings>>
schedVars == <<routineRunTracker, timerVars, passes>>
credVars == <<sources, envToken, integrations, upserts, vault, dispatch>>
histVars == <<launched, epoch, edits>>

----------------------------------------------------------------------------
(* Bounds of the model. *)

MaxDays == 2        \* calendar days the clock can visit
MaxMinutes == 2     \* minutes 00:00 .. of each day the clock can visit
MaxPasses == 2      \* evaluation passes in flight at once
MaxRuns == 2        \* routine runs in flight at once
MaxReqs == 1        \* HTTP requests in flight at once
MaxLog == 1         \* activity-log entries kept
MaxEdits == 1       \* PATCH requests served
MaxEpochs == 2      \* process starts
MaxRoutines == 2    \* routines in routines.json
MaxLaunches == 2    \* launches recorded in one slot where requests revert lastRunAt
MaxUpserts == 2     \* credential requests of one history
MaxEntries == 3     \* entries in integrations.json when a create is accepted

----------------------------------------------------------------------------
(* Program constants. *)

DEFAULT_ROUTINE_CHECK_INTERVAL_MS == 30 * 1000
MAX_ACTIONS_PER_ROUTINE == 20
MinIntervalMs == 5000
MaxIntervalMs == 5 * 60 * 1000
MinEveryMinutes == 1
MaxEveryMinutes == 1440
MaxNameLen == 120
MinuteMs == 60 * 1000
NoRun == 0          \* lastRunAt: null, read as 0 by `lastRunAt || 0`

HourMs == 60 * MinuteMs
DayMs == 24 * HourMs

----------------------------------------------------------------------------
(* Small helpers. *)

Min(a, b) == IF a < b THEN a ELSE b
Max(a, b) == IF a > b THEN a ELSE b

\* An optional value (a property that may be undefined) is a sequence of
\* length 0 or 1.
Absent == <<>>
Some(v) == <<v>>
Has(o) == Len(o) > 0
Val(o) == o[1]

Range(s) == {s[i] : i \in 1..Len(s)}

\* Array.prototype.includes
Includes(s, v) == \E i \in 1..Len(s) : s[i] = v

\* Array.prototype.findIndex on the routine collection, 0 for -1
FindIndex(routines, id) ==
    IF \E i \in 1..Len(routines) : routines[i].id = id
    THEN CHOOSE i \in 1..Len(routines) :
            /\ routines[i].id = id
            /\ \A j \in 1..(i - 1) : routines[j].id # id
    ELSE 0

----------------------------------------------------------------------------
(* The secret vault: encryptSecret and decryptSecret.                       *)
(* A string is the sequence of its UTF-16 code units, a Buffer the sequence *)
(* of its bytes, a base64 text the sequence of its symbols: 0..63 for the   *)
(* letters of the alphabet and Pad for "=".  AES-256-GCM is the runtime's:  *)
(* it is modelled as a cipher that adds a key stream to the bytes and a tag *)
(* that depends on the key, on every byte of the nonce and on every byte of *)
(* the ciphertext, which is what the construction guarantees.               *)

IV_LEN == 12
TAG_LEN == 16
Pad == 64

\* the code units that are one half of a surrogate pair
IsSurrogate(c) == c >= 55296 /\ c <= 57343

\* Buffer.from(text, "utf8") / cipher.update(plain, "utf8") for a string
\* without surrogate pairs: a surrogate on its own is written as U+FFFD
RECURSIVE Utf8Encode(_)
Utf8Encode(units) ==
    IF Len(units) = 0 THEN <<>>
    ELSE LET c == Head(units)
             bytes == IF c < 128 THEN <<c>>
                      ELSE IF c < 2048 THEN <<192 + (c \div 64), 128 + (c % 64)>>
                      ELSE IF IsSurrogate(c) THEN <<239, 191, 189>>
                      ELSE <<224 + (c \div 4096), 128 + ((c \div 64) % 64), 128 + (c % 64)>>
         IN  bytes \o Utf8Encode(Tail(units))

\* buf.toString("utf8"): one, two and three byte sequences; a byte that
\* starts no sequence reads as U+FFFD
RECURSIVE Utf8Decode(_)
Utf8Decode(bytes) ==
    IF Len(bytes) = 0 THEN <<>>
    ELSE LET b == Head(bytes)
         IN  IF b < 128 THEN <<b>> \o Utf8Decode(Tail(bytes))
             ELSE IF b >= 192 /\ b < 224 /\ Len(bytes) >= 2
             THEN <<(b - 192) * 64 + (bytes[2] - 128)>> \o Utf8Decode(SubSeq(bytes, 3, Len(bytes)))
             ELSE IF b >= 224 /\ b < 240 /\ Len(bytes) >= 3
             THEN <<(b - 224) * 4096 + (bytes[2] - 128) * 64 + (bytes[3] - 128)>>
                      \o Utf8Decode(SubSeq(bytes, 4, Len(bytes)))
             ELSE <<65533>> \o Utf8Decode(Tail(bytes))

\* buf.toString("base64")
RECURSIVE ToBase64(_)
ToBase64(bytes) ==
    IF Len(bytes) = 0 THEN <<>>
    ELSE IF Len(bytes) = 1
    THEN <<bytes[1] \div 4, (bytes[1] % 4) * 16, Pad, Pad>>
    ELSE IF Len(bytes) = 2
    THEN <<bytes[1] \div 4, (bytes[1] % 4) * 16 + (bytes[2] \div 16), (bytes[2] % 16) * 4, Pad>>
    ELSE <<bytes[1] \div 4, (bytes[1] % 4) * 16 + (bytes[2] \div 16),
           (bytes[2] % 16) * 4 + (bytes[3] \div 64), bytes[3] % 64>>
             \o ToBase64(SubSeq(bytes, 4, Len(bytes)))

\* the bytes of the symbols of a base64 text: the bits of the last symbols
\* that do not fill a byte are dropped
RECURSIVE DecodeSymbols(_)
DecodeSymbols(s) ==
    IF Len(s) < 2 THEN <<>>
    ELSE IF Len(s) = 2 THEN <<s[1] * 4 + (s[2] \div 16)>>
    ELSE IF Len(s) = 3 THEN <<s[1] * 4 + (s[2] \div 16), (s[2] % 16) * 16 + (s[3] \div 4)>>
    ELSE <<s[1] * 4 + (s[2] \div 16), (s[2] % 16) * 16 + (s[3] \div 4), (s[3] % 4) * 64 + s[4]>>
             \o DecodeSymbols(SubSeq(s, 5, Len(s)))

\* Buffer.from(text, "base64"): the symbols up to the first "="
FromBase64(text) ==
    LET pads == {i \in 1..Len(text) : text[i] = Pad}
        end == IF pads = {} THEN Len(text) ELSE (CHOOSE i \in pads : \A j \in pads : i <= j) - 1
    IN  DecodeSymbols(SubSeq(text, 1, end))

\* buf.subarray(from, to) with 0-based bounds, clamped to the buffer
Subarray(buf, from, to) == SubSeq(buf, Min(from, Len(buf)) + 1, Min(to, Len(buf)))

\* the key stream byte at position i
KeyStream(key, iv, i) == (17 * key + iv[((i - 1) % IV_LEN) + 1] + i) % 256

\* cipher.update + cipher.final / decipher.update + decipher.final on bytes
Encipher(key, iv, bytes) ==
    [i \in 1..Len(bytes) |-> (bytes[i] + KeyStream(key, iv, i)) % 256]

Decipher(key, iv, bytes) ==
    [i \in 1..Len(bytes) |-> (bytes[i] + 256 - KeyStream(key, iv, i)) % 256]

RECURSIVE WeightedSum(_, _)
WeightedSum(bytes, i) ==
    IF i > Len(bytes) THEN 0 ELSE (2 * i + 1) * bytes[i] + WeightedSum(bytes, i + 1)

\* cipher.getAuthTag(): 16 bytes, each a function of the key, the nonce, the
\* length of the ciphertext and its bytes (two inputs with one tag, a chance
\* of 2^-128 for the construction, do not occur in this model)
AuthTag(key, iv, enc) ==
    [j \in 1..TAG_LEN |->
        (31 * key + (IF j <= IV_LEN THEN iv[j] ELSE j) + 101 * Len(enc)
            + WeightedSum(enc, 1)) % 256]

\* the tag lengths decipher.setAuthTag takes for GCM when createDecipheriv
\* was given no authTagLength; any other length throws
ValidTagLengths == {4, 8, 12, 13, 14, 15, 16}

\* the outcome of decryptSecret: the plaintext, or a throw
Plain(units) == [ok |-> TRUE, plain |-> units]
Throws == [ok |-> FALSE, plain |-> <<>>]

\* encryptSecret(plain, key) with iv the bytes crypto.randomBytes(12) drew
encryptSecret(plain, key, iv) ==
    LET enc == Encipher(key, iv, Utf8Encode(plain))
    IN  ToBase64(iv \o AuthTag(key, iv, enc) \o enc)

\* a decryptSecret that does not check the tag
DecryptUnverified(payload, key) ==
    LET buf == FromBase64(payload)
        iv == Subarray(buf, 0, IV_LEN)
    IN  IF Len(iv) = 0 THEN Throws
        ELSE Plain(Utf8Decode(Decipher(key, iv, Subarray(buf, IV_LEN + TAG_LEN, Len(buf)))))

\* decryptSecret(payload, key); payload is the text, empty when the property
\* is "" or missing; createDecipheriv throws on an empty nonce, setAuthTag on
\* a tag of another length, decipher.final() when the tag does not verify
decryptSecret(payload, key) ==
    IF Len(payload) = 0 THEN Plain(<<>>)
    ELSE LET buf == FromBase64(payload)
             iv == Subarray(buf, 0, IV_LEN)
             tag == Subarray(buf, IV_LEN, IV_LEN + TAG_LEN)
             data == Subarray(buf, IV_LEN + TAG_LEN, Len(buf))
         IN  IF Len(iv) = 0 THEN Throws
             ELSE IF Len(tag) \notin ValidTagLengths THEN Throws
             ELSE IF tag # SubSeq(AuthTag(key, iv, data), 1, Len(tag)) THEN Throws
             ELSE Plain(Utf8Decode(Decipher(key, iv, data)))

----------------------------------------------------------------------------
(* Wall-clock conversions of Date. *)

Digit == <<"0", "1", "2", "3", "4", "5", "6", "7", "8", "9">>

\* two decimal digits, zero padded
Pad2(n) == <<Digit[(n \div 10) + 1], Digit[(n % 10) + 1]>>

\* now.toTimeString().slice(0, 5): "HH:MM" as a sequence of characters
ToTimeString(t) ==
    Pad2((t % DayMs) \div HourMs) \o <<":">> \o Pad2((t % HourMs) \div MinuteMs)

\* now.getDay(): 0 = Sunday; 1970-01-01 was a Thursday
GetDay(t) == ((t \div DayMs) + 4) % 7

\* now.toDateString(): one value per calendar day
ToDateString(t) == t \div DayMs

\* `${now.toDateString()}-${hhmm}`
SlotKey(t) == <<ToDateString(t), ToTimeString(t)>>

----------------------------------------------------------------------------
(* Routine payload validation and normalisation. *)

\* String.prototype.trim on a sequence of characters
RECURSIVE TrimLeft(_)
TrimLeft(s) == IF Len(s) > 0 /\ s[1] = " " THEN TrimLeft(Tail(s)) ELSE s

RECURSIVE TrimRight(_)
TrimRight(s) ==
    IF Len(s) > 0 /\ s[Len(s)] = " " THEN TrimRight(SubSeq(s, 1, Len(s) - 1)) ELSE s

Trim(s) == TrimRight(TrimLeft(s))

\* String.prototype.slice(0, n)
Slice(s, n) == SubSeq(s, 1, Min(Len(s), n))

IsDigitIn(c, ds) == \E i \in 1..Len(ds) : ds[i] = c

\* a validator that takes any two digits for the hour and for the minute
isValidTimeStringAnyDigits(value) ==
    LET s == Trim(IF Has(value) THEN Val(value) ELSE <<>>)
    IN  /\ Len(s) = 5
        /\ IsDigitIn(s[1], Digit)
        /\ IsDigitIn(s[2], Digit)
        /\ s[3] = ":"
        /\ IsDigitIn(s[4], Digit)
        /\ IsDigitIn(s[5], Digit)

\* /^([01]\d|2[0-3]):[0-5]\d$/.test(String(value || "").trim()); value is an
\* optional sequence of characters
isValidTimeString(value) ==
    LET s == Trim(IF Has(value) THEN Val(value) ELSE <<>>)
    IN  /\ Len(s) = 5
        /\ \/ /\ s[1] \in {"0", "1"}
              /\ IsDigitIn(s[2], Digit)
           \/ /\ s[1] = "2"
              /\ s[2] \in {"0", "1", "2", "3"}
        /\ s[3] = ":"
        /\ s[4] \in {"0", "1", "2", "3", "4", "5"}
        /\ IsDigitIn(s[5], Digit)

\* normalizeDays: integers 0..6 of the array, first occurrences, in order;
\* days is an optional sequence of integers (not an array: [])
RECURSIVE DedupDays(_, _)
DedupDays(ds, acc) ==
    IF Len(ds) = 0 THEN acc
    ELSE LET d == Head(ds)
         IN  IF d >= 0 /\ d <= 6 /\ ~Includes(acc, d)
             THEN DedupDays(Tail(ds), Append(acc, d))
             ELSE DedupDays(Tail(ds), acc)

normalizeDays(days) == IF Has(days) THEN DedupDays(Val(days), <<>>) ELSE <<>>

\* Number(x) || 0 on a JavaScript value [t, v]: a number is itself, NaN and
\* undefined are 0
NumberOrZero(j) == IF j.t = "number" THEN j.v ELSE 0

\* no clamp
Unclamped(n) == n

\* Math.max(1, Math.min(1440, n))
ClampEveryMinutes(n) == Max(MinEveryMinutes, Min(MaxEveryMinutes, n))

\* One action of normalizeActions' loop: the normalised action, or Absent when
\* the action is dropped.  A raw action has the optional fields id, deviceId,
\* sourceId, deviceName, the string type, the JavaScript values desiredState
\* and on, and the character sequences capability and command.  freshId is
\* the crypto.randomBytes(6) drawn for an action without id.
NormalizeAction(action, freshId) ==
    IF ~Has(action.deviceId) \/ Val(action.deviceId) = "" THEN Absent
    ELSE
      LET base == [id |-> IF Has(action.id) THEN Val(action.id) ELSE freshId,
                   deviceId |-> Val(action.deviceId),
                   sourceId |-> IF Has(action.sourceId) /\ Val(action.sourceId) # ""
                                THEN action.sourceId ELSE Absent,
                   deviceName |-> IF Has(action.deviceName) /\ Val(action.deviceName) # <<>>
                                  THEN Some(Slice(Val(action.deviceName), MaxNameLen))
                                  ELSE Absent]
      IN  IF action.type = "device_toggle"
          THEN LET desired == IF action.desiredState.t = "boolean" THEN Some(action.desiredState.v)
                              ELSE IF action.on.t = "boolean" THEN Some(action.on.v)
                              ELSE Absent
               IN  IF ~Has(desired) THEN Absent
                   ELSE Some([id |-> base.id, deviceId |-> base.deviceId,
                              sourceId |-> base.sourceId, deviceName |-> base.deviceName,
                              type |-> "device_toggle", desiredState |-> Val(desired),
                              capability |-> <<>>, command |-> <<>>])
          ELSE IF action.type = "device_command"
          THEN LET capability == Trim(action.capability)
                   command == Trim(action.command)
               IN  IF capability = <<>> \/ command = <<>> THEN Absent
                   ELSE Some([id |-> base.id, deviceId |-> base.deviceId,
                              sourceId |-> base.sourceId, deviceName |-> base.deviceName,
                              type |-> "device_command", desiredState |-> FALSE,
                              capability |-> capability, command |-> command])
          ELSE Absent

\* normalizeActions: the surviving actions in order, the first 20 of them
RECURSIVE NormalizeLoop(_, _, _)
NormalizeLoop(list, freshIds, acc) ==
    IF Len(list) = 0 THEN acc
    ELSE NormalizeLoop(Tail(list), Tail(freshIds),
                       acc \o NormalizeAction(Head(list), Head(freshIds)))

\* normalisation without the cap
normalizeActionsUncapped(actions, freshIds) == NormalizeLoop(actions, freshIds, <<>>)

normalizeActions(actions, freshIds) ==
    Slice(NormalizeLoop(actions, freshIds, <<>>), MAX_ACTIONS_PER_ROUTINE)

\* buildRoutineFromPayload(payload, existing): [error |-> TRUE] or
\* [error |-> FALSE, routine |-> ...].  payload has the optional fields name,
\* enabled, trigger and actions; existing is an optional routine; t is
\* Date.now(); freshId is the crypto.randomBytes(8) of a new routine and
\* freshIds those of its actions.
BuildTrigger(trigger) ==
    IF trigger.type = "time"
    THEN IF ~isValidTimeString(trigger.time) THEN Absent
         ELSE Some([type |-> "time", time |-> Trim(Val(trigger.time)),
                    days |-> normalizeDays(trigger.days), everyMinutes |-> 0])
    ELSE IF trigger.type = "interval"
    THEN LET everyMinutes == ClampEveryMinutes(NumberOrZero(trigger.everyMinutes))
         IN  IF everyMinutes = 0 THEN Absent
             ELSE Some([type |-> "interval", time |-> <<>>, days |-> <<>>,
                        everyMinutes |-> everyMinutes])
    ELSE Absent

\* an update that rebuilds the routine from the body alone: it keeps the id
\* but not lastRunAt
BuildWithoutLastRun(payload, existing, t, freshId, freshIds) ==
    LET base == IF Has(existing) THEN [Val(existing) EXCEPT !.lastRunAt = NoRun]
                ELSE [id |-> freshId, createdAt |-> t, lastRunAt |-> NoRun,
                      name |-> <<>>, enabled |-> TRUE,
                      trigger |-> [type |-> "none", time |-> <<>>, days |-> <<>>,
                                   everyMinutes |-> 0],
                      actions |-> <<>>, updatedAt |-> t]
    IN  IF Has(payload.name) /\ Trim(Val(payload.name)) = <<>> THEN [error |-> TRUE]
        ELSE IF Has(payload.trigger) /\ ~Has(BuildTrigger(Val(payload.trigger)))
        THEN [error |-> TRUE]
        ELSE IF ~Has(payload.trigger) /\ ~Has(existing) THEN [error |-> TRUE]
        ELSE IF Has(payload.actions) /\ Len(normalizeActions(Val(payload.actions), freshIds)) = 0
        THEN [error |-> TRUE]
        ELSE IF ~Has(payload.actions) /\ ~Has(existing) THEN [error |-> TRUE]
        ELSE [error |-> FALSE,
              routine |->
                [base EXCEPT
                   !.name = IF Has(payload.name)
                            THEN Slice(Trim(Val(payload.name)), MaxNameLen) ELSE @,
                   !.enabled = IF Has(payload.enabled) THEN Val(payload.enabled) ELSE @,
                   !.trigger = IF Has(payload.trigger)
                               THEN Val(BuildTrigger(Val(payload.trigger))) ELSE @,
                   !.actions = IF Has(payload.actions)
                               THEN normalizeActions(Val(payload.actions), freshIds) ELSE @,
                   !.updatedAt = t]]

buildRoutineFromPayload(payload, existing, t, freshId, freshIds) ==
    LET base == IF Has(existing) THEN Val(existing)
                ELSE [id |-> freshId, createdAt |-> t, lastRunAt |-> NoRun,
                      name |-> <<>>, enabled |-> TRUE,
                      trigger |-> [type |-> "none", time |-> <<>>, days |-> <<>>,
                                   everyMinutes |-> 0],
                      actions |-> <<>>, updatedAt |-> t]
        name == IF Has(payload.name) THEN Trim(Val(payload.name)) ELSE <<>>
        trigger == IF Has(payload.trigger) THEN BuildTrigger(Val(payload.trigger)) ELSE Absent
        actions == IF Has(payload.actions)
                   THEN normalizeActions(Val(payload.actions), freshIds) ELSE <<>>
    IN  IF Has(payload.name) /\ name = <<>> THEN [error |-> TRUE]
        ELSE IF Has(payload.trigger) /\ ~Has(trigger) THEN [error |-> TRUE]
        ELSE IF ~Has(payload.trigger) /\ ~Has(existing) THEN [error |-> TRUE]
        ELSE IF Has(payload.actions) /\ Len(actions) = 0 THEN [error |-> TRUE]
        ELSE IF ~Has(payload.actions) /\ ~Has(existing) THEN [error |-> TRUE]
        ELSE [error |-> FALSE,
              routine |->
                [id |-> base.id,
                 createdAt |-> base.createdAt,
                 lastRunAt |-> base.lastRunAt,
                 name |-> IF Has(payload.name) THEN Slice(name, MaxNameLen) ELSE base.name,
                 enabled |-> IF Has(payload.enabled) THEN Val(payload.enabled) ELSE base.enabled,
                 trigger |-> IF Has(payload.trigger) THEN Val(trigger) ELSE base.trigger,
                 actions |-> IF Has(payload.actions) THEN actions ELSE base.actions,
                 updatedAt |-> t]]

----------------------------------------------------------------------------
(* Credential resolution and dispatch. *)

EnvEntry == [id |-> "env", enabled |-> TRUE]

\* stored.filter((e) => e.enabled)
RECURSIVE FilterEnabled(_)
FilterEnabled(entries) ==
    IF Len(entries) = 0 THEN <<>>
    ELSE IF Head(entries).enabled
         THEN <<Head(entries)>> \o FilterEnabled(Tail(entries))
         ELSE FilterEnabled(Tail(entries))

\* resolution that does not filter on the enabled flag
ResolveUnfiltered(env, stored) ==
    IF env THEN <<EnvEntry>> ELSE stored

\* resolveSmartThingsToken(): the usable entries; the empty sequence stands
\* for the thrown "SMARTTHINGS_TOKEN fehlt"
resolveSmartThingsToken(env, stored) ==
    IF env THEN <<EnvEntry>> ELSE FilterEnabled(stored)

\* sourceId ? tokens.find((t) => t.id === sourceId) : tokens[0], Absent when
\* the resolution throws or the entry is undefined
PickTokenEntry(tokens, sourceId) ==
    IF Len(tokens) = 0 THEN Absent
    ELSE IF Has(sourceId)
         THEN IF \E i \in 1..Len(tokens) : tokens[i].id = Val(sourceId)
              THEN Some(tokens[CHOOSE i \in 1..Len(tokens) :
                                 /\ tokens[i].id = Val(sourceId)
                                 /\ \A j \in 1..(i - 1) : tokens[j].id # Val(sourceId)])
              ELSE Absent
         ELSE Some(tokens[1])

\* the message of the error thrown when no token entry is picked: that of
\* resolveSmartThingsToken, or that of the caller for an undefined tokenEntry
ResolveError(tokens) ==
    IF Len(tokens) = 0 THEN "SMARTTHINGS_TOKEN fehlt" ELSE "Token fuer Quelle nicht gefunden"

\* appendLog's entry for an action of a routine:
\* device: action.deviceName || routine.name || action.deviceId,
\* action: "on"/"off" or `${capability}:${command}`
LogEntry(name, action) ==
    [device |-> IF Has(action.deviceName) THEN Val(action.deviceName)
                ELSE IF name # <<>> THEN name
                ELSE <<action.deviceId>>,
     action |-> IF action.type = "device_toggle"
                THEN (IF action.desiredState THEN <<"on">> ELSE <<"off">>)
                ELSE action.capability \o <<":">> \o action.command]

\* fsPromises.appendFile on activity.log; the model keeps the last MaxLog lines
AppendLog(lines, entry) ==
    IF Len(lines) < MaxLog THEN Append(lines, entry)
    ELSE Tail(lines) \o <<entry>>

----------------------------------------------------------------------------
(* runRoutineActions(routine): one call is a slot of `runs`.               *)
(*   pc = "next"   : before the action at idx                               *)
(*   pc = "cmd"    : the POST /commands of action idx is in flight          *)
(*   pc = "status" : the status and health reads of action idx are in flight*)
(*   pc = "hung"   : a remote call of action idx never returns              *)
(*   pc = "done"   : results returned                                      *)
(*   pc = "threw"  : the call rejected (no path of the loop does this: the  *)
(*                   try/catch of the loop body catches every action error) *)
(* sent and attempts are history: the actions whose command request was    *)
(* sent, and what happened to each attempted action.                        *)

IdleRun == [pc |-> "idle"]

NewRun(routine, origin, req) ==
    [pc |-> IF Len(routine.actions) > 0 THEN "next" ELSE "done", id |-> routine.id, name |-> routine.name,
     actions |-> routine.actions, idx |-> 1, results |-> <<>>,
     origin |-> origin, req |-> req, src |-> "", sent |-> <<>>, attempts |-> <<>>]

FreeRuns == {k \in 1..MaxRuns : runs[k].pc = "idle"}

\* results.push({ ok: true, actionId, state }) and `continue`; past the last
\* action the loop ends and `return results` follows in the same segment
PushOk(run) ==
    [run EXCEPT !.results = Append(@, [ok |-> TRUE, actionId |-> run.actions[run.idx].id,
                                      error |-> ""]),
                !.idx = @ + 1,
                !.pc = IF run.idx < Len(run.actions) THEN "next" ELSE "done"]

\* an action error that ends the loop: the later actions are not attempted
PushErrorAndStop(run, message) ==
    [run EXCEPT !.results = Append(@, [ok |-> FALSE, actionId |-> run.actions[run.idx].id,
                                      error |-> message]),
                !.idx = @ + 1, !.pc = "done"]

\* an action error that is not caught: the call rejects
ThrowError(run, message) == [run EXCEPT !.idx = @ + 1, !.pc = "threw"]

\* the catch block: results.push({ ok: false, actionId, error: err.message }),
\* then the loop goes on with the next action
PushError(run, message) ==
    [run EXCEPT !.results = Append(@, [ok |-> FALSE, actionId |-> run.actions[run.idx].id,
                                      error |-> message]),
                !.idx = @ + 1,
                !.pc = IF run.idx < Len(run.actions) THEN "next" ELSE "done"]

\* the iterations started without awaiting one another: the next command
\* request is sent while the previous one is in flight
RunSendUnawaited(k) ==
    /\ runs[k].pc \in {"next", "cmd"}
    /\ LET idx == IF runs[k].pc = "cmd" THEN runs[k].idx + 1 ELSE runs[k].idx
       IN  /\ idx <= Len(runs[k].actions)
           /\ runs' = [runs EXCEPT ![k] =
                          [runs[k] EXCEPT !.pc = "cmd", !.idx = idx, !.src = "b",
                                          !.sent = Append(@, idx)]]
    /\ UNCHANGED <<now, file, schedVars, reqs, log, credVars, histVars>>

\* the start of one iteration: resolve the credential, then send the command
\* request (toggleSmartThingsDevice, or the device_command branch)
RunSend(k) ==
    /\ runs[k].pc = "next"
    /\ LET run == runs[k]
           action == run.actions[run.idx]
           tokens == resolveSmartThingsToken(envToken, sources)
           entry == PickTokenEntry(tokens, action.sourceId)
       IN  IF Has(entry)
           THEN runs' = [runs EXCEPT ![k] =
                           [run EXCEPT !.pc = "cmd", !.src = Val(entry).id,
                                       !.sent = Append(@, run.idx)]]
           ELSE runs' = [runs EXCEPT ![k] =
                           [PushError(run, ResolveError(tokens)) EXCEPT
                               !.attempts = Append(@, "no-credential")]]
    /\ UNCHANGED <<now, file, schedVars, reqs, log, credVars, histVars>>

\* the command response: r.ok, or a non-success status (the throw of
\* sendSmartThingsCommand, caught by the loop)
RunCommandResponse(k, ok) ==
    /\ runs[k].pc = "cmd"
    /\ runs' = [runs EXCEPT ![k] =
                  IF ok THEN [runs[k] EXCEPT !.pc = "status"]
                  ELSE [PushError(runs[k], "command") EXCEPT
                           !.attempts = Append(@, "command-failed")]]
    /\ UNCHANGED <<now, file, schedVars, reqs, log, credVars, histVars>>

\* getDeviceStatus returns (then appendLog and results.push), or one of its
\* fetches rejects
RunStatusResponse(k, ok) ==
    /\ runs[k].pc = "status"
    /\ IF ok
       THEN /\ runs' = [runs EXCEPT ![k] =
                          [PushOk(runs[k]) EXCEPT !.attempts = Append(@, "ok")]]
            /\ log' = AppendLog(log, LogEntry(runs[k].name, runs[k].actions[runs[k].idx]))
       ELSE /\ runs' = [runs EXCEPT ![k] =
                          [PushError(runs[k], "status") EXCEPT
                              !.attempts = Append(@, "status-failed")]]
            /\ log' = log
    /\ UNCHANGED <<now, file, schedVars, reqs, credVars, histVars>>

\* a remote call that never returns (no timeout is set on fetch)
RunHang(k) ==
    /\ runs[k].pc \in {"cmd", "status"}
    /\ runs' = [runs EXCEPT ![k].pc = "hung"]
    /\ UNCHANGED <<now, file, schedVars, reqs, log, credVars, histVars>>

\* the promise of a scheduled run settles; nothing awaits it (a rejection
\* is logged by the .catch of the launch)
RunSettle(k) ==
    /\ runs[k].pc \in {"done", "threw"}
    /\ runs[k].origin = "sched"
    /\ runs' = [runs EXCEPT ![k] = IdleRun]
    /\ UNCHANGED <<now, file, schedVars, reqs, log, credVars, histVars>>

----------------------------------------------------------------------------
(* evaluateRoutines(): one call is a slot of `passes`.                      *)
(*   pc = "decide" : readRoutines() was called, data is what it read        *)
(*   pc = "write"  : the map is done, writeRoutines(updatedRoutines) pending*)

IdlePass == [pc |-> "idle"]

FreePasses == {p \in 1..MaxPasses : passes[p].pc = "idle"}

\* a call of evaluateRoutines(): it runs up to `await readRoutines()`
StartPass(ps, routines) ==
    LET p == CHOOSE x \in 1..MaxPasses :
                /\ ps[x].pc = "idle"
                /\ \A y \in 1..(x - 1) : ps[y].pc # "idle"
    IN  [ps EXCEPT ![p] = [pc |-> "decide", data |-> routines]]

\* the time branch without the run-tracker guard
TimeTriggerFiresUnguarded(routine, tracker, t) ==
    /\ routine.trigger.time = ToTimeString(t)
    /\ LET days == normalizeDays(Some(routine.trigger.days))
       IN  ~(Len(days) > 0 /\ ~Includes(days, GetDay(t)))

\* the time branch: trigger.time === hhmm, the weekday filter, the tracker
TimeTriggerFires(routine, tracker, t) ==
    /\ routine.trigger.time = ToTimeString(t)
    /\ LET days == normalizeDays(Some(routine.trigger.days))
       IN  ~(Len(days) > 0 /\ ~Includes(days, GetDay(t)))
    /\ tracker[routine.id] # SlotKey(t)

\* the tracker entry is not recorded
TrackerSetDropped(tracker, id, key) == tracker

\* routineRunTracker.set(updated.id, key)
TrackerSet(tracker, id, key) == [tracker EXCEPT ![id] = key]

\* the interval branch with > for >=
IntervalTriggerFiresStrict(routine, t) ==
    LET everyMinutes ==
            ClampEveryMinutes(NumberOrZero([t |-> "number", v |-> routine.trigger.everyMinutes]))
    IN  t - routine.lastRunAt > everyMinutes * MinuteMs

\* the interval branch: Date.now() - (lastRunAt || 0) >= everyMinutes * 60 * 1000
IntervalTriggerFires(routine, t) ==
    LET everyMinutes ==
            ClampEveryMinutes(NumberOrZero([t |-> "number", v |-> routine.trigger.everyMinutes]))
    IN  t - routine.lastRunAt >= everyMinutes * MinuteMs

\* the map callback without the test of the enabled flag
FiresWhateverEnabled(routine, tracker, t) ==
    \/ routine.trigger.type = "time" /\ TimeTriggerFires(routine, tracker, t)
    \/ routine.trigger.type = "interval" /\ IntervalTriggerFires(routine, t)

\* whether the map callback launches the routine
Fires(routine, tracker, t) ==
    /\ routine.enabled
    /\ \/ routine.trigger.type = "time" /\ TimeTriggerFires(routine, tracker, t)
       \/ routine.trigger.type = "interval" /\ IntervalTriggerFires(routine, t)

\* history of launches: one record per launch, k numbering the launches of
\* the same routine in the same slot
LaunchRecord(hist, routine, t, e) ==
    [id |-> routine.id, slot |-> SlotKey(t), branch |-> routine.trigger.type,
     epoch |-> e,
     k |-> 1 + Cardinality({h \in hist : h.id = routine.id /\ h.slot = SlotKey(t)})]

\* (data.routines || []).map(...), routine by routine: the updated copies,
\* the tracker, the routines handed to runRoutineActions, the history
RECURSIVE EvalMap(_, _, _)
EvalMap(data, t, acc) ==
    IF Len(data) = 0 THEN acc
    ELSE LET routine == Head(data)
         IN  IF Fires(routine, acc.tracker, t)
             THEN EvalMap(Tail(data), t,
                    [updated |-> Append(acc.updated, [routine EXCEPT !.lastRunAt = t]),
                     tracker |-> IF routine.trigger.type = "time"
                                 THEN TrackerSet(acc.tracker, routine.id, SlotKey(t))
                                 ELSE acc.tracker,
                     fired |-> Append(acc.fired, routine),
                     hist |-> acc.hist \cup {LaunchRecord(acc.hist, routine, t, acc.epoch)},
                     epoch |-> acc.epoch])
             ELSE EvalMap(Tail(data), t,
                    [acc EXCEPT !.updated = Append(@, routine)])

\* the j-th smallest element of a set of slot numbers
RECURSIVE NthFree(_, _)
NthFree(S, j) ==
    LET m == CHOOSE x \in S : \A y \in S : x <= y
    IN  IF j = 1 THEN m ELSE NthFree(S \ {m}, j - 1)

\* runRoutineActions(updated) for each fired routine, not awaited
LaunchRuns(rs, fired) ==
    LET free == {k \in 1..MaxRuns : rs[k].pc = "idle"}
    IN  [k \in 1..MaxRuns |->
            IF \E j \in 1..Len(fired) : NthFree(free, j) = k
            THEN NewRun(fired[CHOOSE j \in 1..Len(fired) : NthFree(free, j) = k], "sched", 0)
            ELSE rs[k]]

\* the continuation of `await readRoutines()`: the map (decide, launch, stamp
\* lastRunAt) up to `await writeRoutines(...)`, or to the end when nothing fired
EvalDecide(p) ==
    /\ passes[p].pc = "decide"
    /\ LET res == EvalMap(passes[p].data, now,
                          [updated |-> <<>>, tracker |-> routineRunTracker, fired |-> <<>>,
                           hist |-> launched, epoch |-> epoch])
       IN  /\ Len(res.fired) <= Cardinality(FreeRuns)
           /\ routineRunTracker' = res.tracker
           /\ launched' = res.hist
           /\ runs' = LaunchRuns(runs, res.fired)
           /\ passes' = [passes EXCEPT ![p] =
                           IF Len(res.fired) > 0
                           THEN [pc |-> "write", data |-> res.updated]
                           ELSE IdlePass]
    /\ UNCHANGED <<now, file, timerVars, reqs, log, credVars, epoch, edits>>

\* the pass awaits the runs it launched before it writes
EvalWriteAfterRuns(p) ==
    /\ passes[p].pc = "write"
    /\ \A k \in 1..MaxRuns : runs[k].pc \in {"idle", "done"} \/ runs[k].origin # "sched"
    /\ file' = passes[p].data
    /\ passes' = [passes EXCEPT ![p] = IdlePass]
    /\ UNCHANGED <<now, routineRunTracker, timerVars, runs, reqs, log, credVars, histVars>>

\* writeRoutines({ routines: updatedRoutines }) completes
EvalWrite(p) ==
    /\ passes[p].pc = "write"
    /\ file' = passes[p].data
    /\ passes' = [passes EXCEPT ![p] = IdlePass]
    /\ UNCHANGED <<now, routineRunTracker, timerVars, runs, reqs, log, credVars, histVars>>

\* a rejected write that nothing catches: the process ends on the unhandled
\* rejection and its timer with it
EvalWriteCrashes(p) ==
    /\ passes[p].pc = "write"
    /\ timers' = {}
    /\ routineIntervalHandle' = 0
    /\ passes' = [q \in 1..MaxPasses |-> IdlePass]
    /\ runs' = [k \in 1..MaxRuns |-> IdleRun]
    /\ UNCHANGED <<now, file, routineRunTracker, routineIntervalMs, settings, reqs, log,
                   credVars, histVars>>

\* writeRoutines of the pass rejects: the catch of evaluateRoutines logs it,
\* the stamped copies are dropped
EvalWriteFails(p) ==
    /\ passes[p].pc = "write"
    /\ passes' = [passes EXCEPT ![p] = IdlePass]
    /\ UNCHANGED <<now, file, routineRunTracker, timerVars, runs, reqs, log, credVars,
                   histVars>>

\* readRoutines of the pass fails to read or parse routines.json: its catch
\* writes { routines: [] } and returns it, so the map runs on no routine; if
\* that write rejects too, readRoutines rejects into the catch of
\* evaluateRoutines
EvalReadFails(p, reset) ==
    /\ passes[p].pc = "decide"
    /\ file' = IF reset THEN <<>> ELSE file
    /\ passes' = [passes EXCEPT ![p] = IdlePass]
    /\ UNCHANGED <<now, routineRunTracker, timerVars, runs, reqs, log, credVars, histVars>>

\* the repeating timer fires: setInterval's callback calls evaluateRoutines()
Tick(h) ==
    /\ h \in timers
    /\ FreePasses # {}
    /\ passes' = StartPass(passes, file)
    /\ UNCHANGED <<now, file, routineRunTracker, timerVars, runs, reqs, log, credVars,
                   histVars>>

\* applyRoutineInterval(ms): the new period, the timer handle and the timers
\* after clearInterval and setInterval; ms is a JavaScript value
ApplyPeriod(ms) ==
    IF ms.t # "number" \/ ms.v < MinIntervalMs THEN DEFAULT_ROUTINE_CHECK_INTERVAL_MS
    ELSE ms.v

\* a reconfiguration that starts the new timer without clearInterval
KeptTimers(ts, handle) == ts

ClearedTimers(ts, handle) == IF handle # 0 THEN ts \ {handle} ELSE ts

\* setInterval's handle: one that names no live timer
NewHandle(ts) == CHOOSE h \in 1..(Cardinality(ts) + 1) : h \notin ts

\* POST /api/settings: sanitise, persist, applyRoutineInterval (which also
\* calls evaluateRoutines() once)
Sanitize(input) ==
    Max(MinIntervalMs,
        Min(MaxIntervalMs,
            IF NumberOrZero(input) # 0 THEN NumberOrZero(input)
            ELSE DEFAULT_ROUTINE_CHECK_INTERVAL_MS))

PostSettings(input) ==
    /\ FreePasses # {}
    /\ LET ms == [t |-> "number", v |-> Sanitize(input)]
           cleared == ClearedTimers(timers, routineIntervalHandle)
       IN  /\ settings' = ms
           /\ routineIntervalMs' = ApplyPeriod(ms)
           /\ routineIntervalHandle' = NewHandle(cleared)
           /\ timers' = cleared \cup {NewHandle(cleared)}
    /\ passes' = StartPass(passes, file)
    /\ UNCHANGED <<now, file, routineRunTracker, runs, reqs, log, credVars, histVars>>

----------------------------------------------------------------------------
(* HTTP requests: one request is a slot of `reqs`; a finished request keeps *)
(* its response (status, and results for run-now) until it is collected.    *)

IdleReq == [pc |-> "idle"]

Response(kind, id, status, results) ==
    [pc |-> "done", kind |-> kind, id |-> id, status |-> status, results |-> results]

\* the response of a create, update or delete request; payload (the request
\* body) is history
StoreResponse(kind, id, status, payload) ==
    [pc |-> "done", kind |-> kind, id |-> id, status |-> status, results |-> <<>>,
     payload |-> payload]

\* a create, update or delete request whose writeRoutines(data) is pending;
\* prior (the collection the handler read) and at (its Date.now()) are history
StoreWrite(kind, id, payload, prior, at, data) ==
    [pc |-> "write", kind |-> kind, id |-> id, payload |-> payload, prior |-> prior,
     at |-> at, data |-> data]

\* the ids of routines
RoutineIds == {"r1", "r2"}

\* crypto.randomBytes: an id of a new routine, one that nothing refers to
UnusedIds ==
    {id \in RoutineIds :
        /\ FindIndex(file, id) = 0
        /\ routineRunTracker[id] = <<>>
        /\ \A p \in 1..MaxPasses : passes[p].pc # "idle" => FindIndex(passes[p].data, id) = 0
        /\ \A k \in 1..MaxRuns : runs[k].pc # "idle" => runs[k].id # id
        /\ \A h \in launched : h.id # id}

\* the ids drawn for the actions of a payload that carry none
FreshActionIds == [i \in 1..(MAX_ACTIONS_PER_ROUTINE + 2) |-> "f" \o ToString(i)]

\* POST /api/routines up to `await writeRoutines(data)`:
\* buildRoutineFromPayload(body), read, data.routines.push(routine)
PostRoutine(q, payload) ==
    /\ reqs[q].pc = "idle"
    /\ Len(file) < MaxRoutines
    /\ UnusedIds # {}
    /\ LET freshId == IF "r1" \in UnusedIds THEN "r1" ELSE "r2"
           built == buildRoutineFromPayload(payload, Absent, now, freshId, FreshActionIds)
       IN  reqs' = [reqs EXCEPT ![q] =
                      IF built.error THEN StoreResponse("post", freshId, 400, payload)
                      ELSE StoreWrite("post", freshId, payload, file, now,
                                      Append(file, built.routine))]
    /\ UNCHANGED <<now, file, schedVars, runs, log, credVars, histVars>>

\* the update handler that stamps updatedAt on the stored routine before it
\* validates the body
PatchRoutineStampFirst(q, id, payload) ==
    /\ reqs[q].pc = "idle"
    /\ edits < MaxEdits
    /\ edits' = edits + 1
    /\ LET data == file
           idx == FindIndex(data, id)
           built == buildRoutineFromPayload(payload, Some(data[idx]), now, "", FreshActionIds)
       IN  /\ reqs' = [reqs EXCEPT ![q] =
                         IF idx = 0 THEN StoreResponse("patch", id, 404, payload)
                         ELSE IF built.error
                         THEN StoreResponse("patch", id, 400, payload)
                         ELSE StoreWrite("patch", id, payload, data, now,
                                         [data EXCEPT ![idx] = built.routine])]
           /\ file' = IF idx = 0 THEN file ELSE [file EXCEPT ![idx].updatedAt = now + 1]
    /\ UNCHANGED <<now, schedVars, runs, log, credVars, launched, epoch>>

\* PATCH /api/routines/:id up to `await writeRoutines(data)`: read, findIndex,
\* buildRoutineFromPayload(body, existing), data.routines[idx] = routine
PatchRoutine(q, id, payload) ==
    /\ reqs[q].pc = "idle"
    /\ edits < MaxEdits
    /\ edits' = edits + 1
    /\ LET data == file
           idx == FindIndex(data, id)
           built == buildRoutineFromPayload(payload, Some(data[idx]), now, "", FreshActionIds)
       IN  reqs' = [reqs EXCEPT ![q] =
                      IF idx = 0 THEN StoreResponse("patch", id, 404, payload)
                      ELSE IF built.error
                      THEN StoreResponse("patch", id, 400, payload)
                      ELSE StoreWrite("patch", id, payload, data, now,
                                      [data EXCEPT ![idx] = built.routine])]
    /\ UNCHANGED <<now, file, schedVars, runs, log, credVars, launched, epoch>>

\* a filter that drops the first routine, whatever its id
DropFirst(routines, id) == IF Len(routines) = 0 THEN <<>> ELSE Tail(routines)

\* data.routines.filter((r) => r.id !== id)
RECURSIVE Without(_, _)
Without(routines, id) ==
    IF Len(routines) = 0 THEN <<>>
    ELSE IF Head(routines).id = id THEN Without(Tail(routines), id)
    ELSE <<Head(routines)>> \o Without(Tail(routines), id)

\* DELETE /api/routines/:id up to `await writeRoutines(data)`
DeleteRoutine(q, id) ==
    /\ reqs[q].pc = "idle"
    /\ LET data == Without(file, id)
       IN  reqs' = [reqs EXCEPT ![q] =
                      IF Len(data) = Len(file)
                      THEN StoreResponse("delete", id, 404, Absent)
                      ELSE StoreWrite("delete", id, Absent, file, now, data)]
    /\ UNCHANGED <<now, file, schedVars, runs, log, credVars, histVars>>

\* the write of a create, update or delete completes and the response is sent
StoreWritten(q) ==
    /\ reqs[q].pc = "write"
    /\ file' = reqs[q].data
    /\ reqs' = [reqs EXCEPT ![q] =
                  StoreResponse(reqs[q].kind, reqs[q].id, 200, reqs[q].payload)]
    /\ UNCHANGED <<now, schedVars, runs, log, credVars, histVars>>

\* the write of a PATCH completes and the response is sent
PatchWrite(q) ==
    /\ reqs[q].pc = "write"
    /\ reqs[q].kind = "patch"
    /\ StoreWritten(q)

\* run-now that treats a disabled routine as not found
RunNowEnabledOnly(q, id) ==
    /\ reqs[q].pc = "idle"
    /\ LET data == file
           idx == FindIndex(data, id)
       IN  IF idx = 0 \/ ~data[idx].enabled
           THEN /\ reqs' = [reqs EXCEPT ![q] = Response("run", id, 404, <<>>)]
                /\ runs' = runs
           ELSE /\ FreeRuns # {}
                /\ reqs' = [reqs EXCEPT ![q] =
                              [pc |-> "running", kind |-> "run", id |-> id,
                               data |-> data, idx |-> idx]]
                /\ runs' = [runs EXCEPT ![NthFree(FreeRuns, 1)] = NewRun(data[idx], "now", q)]
    /\ UNCHANGED <<now, file, schedVars, log, credVars, histVars>>

\* POST /api/routines/:id/run up to `await runRoutineActions(routine)`
RunNow(q, id) ==
    /\ reqs[q].pc = "idle"
    /\ LET data == file
           idx == FindIndex(data, id)
       IN  IF idx = 0
           THEN /\ reqs' = [reqs EXCEPT ![q] = Response("run", id, 404, <<>>)]
                /\ runs' = runs
           ELSE /\ FreeRuns # {}
                /\ reqs' = [reqs EXCEPT ![q] =
                              [pc |-> "running", kind |-> "run", id |-> id,
                               data |-> data, idx |-> idx]]
                /\ runs' = [runs EXCEPT ![NthFree(FreeRuns, 1)] = NewRun(data[idx], "now", q)]
    /\ UNCHANGED <<now, file, schedVars, log, credVars, histVars>>

\* run-now that does not await runRoutineActions: it stamps, writes and
\* answers with the results gathered so far
RunNowRespondUnawaited(q) ==
    /\ reqs[q].pc = "running"
    /\ \E k \in 1..MaxRuns :
        /\ runs[k].pc # "idle"
        /\ runs[k].origin = "now"
        /\ runs[k].req = q
        /\ file' = [reqs[q].data EXCEPT ![reqs[q].idx].lastRunAt = now]
        /\ reqs' = [reqs EXCEPT ![q] = Response("run", reqs[q].id, 200, runs[k].results)]
        /\ runs' = [runs EXCEPT ![k] = IdleRun]
    /\ UNCHANGED <<now, schedVars, log, credVars, histVars>>

\* runRoutineActions returned: routine.lastRunAt = Date.now(),
\* writeRoutines(data), res.json({ success: true, results, routine }); had it
\* rejected, the catch answers 500
RunNowRespond(q) ==
    /\ reqs[q].pc = "running"
    /\ \E k \in 1..MaxRuns :
        /\ runs[k].pc \in {"done", "threw"}
        /\ runs[k].origin = "now"
        /\ runs[k].req = q
        /\ IF runs[k].pc = "done"
           THEN /\ file' = [reqs[q].data EXCEPT ![reqs[q].idx].lastRunAt = now]
                /\ reqs' = [reqs EXCEPT ![q] =
                              Response("run", reqs[q].id, 200, runs[k].results)]
           ELSE /\ file' = file
                /\ reqs' = [reqs EXCEPT ![q] = Response("run", reqs[q].id, 500, <<>>)]
        /\ runs' = [runs EXCEPT ![k] = IdleRun]
    /\ UNCHANGED <<now, schedVars, log, credVars, histVars>>

\* POST /api/smartlife/devices/:id/state: the response of the route, with the
\* source the command was sent with ("" when none was sent)
ToggleResponse(id, sourceId, status, src, error) ==
    [pc |-> "done", kind |-> "toggle", id |-> id, status |-> status, results |-> <<>>,
     sourceId |-> sourceId, src |-> src, error |-> error]

\* the route up to the fetch of sendSmartThingsCommand: toggleSmartThingsDevice
\* resolves the credential and picks the token entry, or throws (answer 500)
ToggleRequest(q, id, sourceId) ==
    /\ reqs[q].pc = "idle"
    /\ LET tokens == resolveSmartThingsToken(envToken, sources)
           entry == PickTokenEntry(tokens, sourceId)
       IN  reqs' = [reqs EXCEPT ![q] =
                      IF Has(entry)
                      THEN [pc |-> "cmd", kind |-> "toggle", id |-> id,
                            sourceId |-> sourceId, src |-> Val(entry).id]
                      ELSE ToggleResponse(id, sourceId, 500, "", ResolveError(tokens))]
    /\ UNCHANGED <<now, file, schedVars, runs, log, credVars, histVars>>

\* the command response of the route's dispatch: r.ok, or a non-success status
ToggleCommandResponse(q, ok) ==
    /\ reqs[q].pc = "cmd"
    /\ reqs' = [reqs EXCEPT ![q] =
                  IF ok THEN [reqs[q] EXCEPT !.pc = "status"]
                  ELSE ToggleResponse(reqs[q].id, reqs[q].sourceId, 500, reqs[q].src, "command")]
    /\ UNCHANGED <<now, file, schedVars, runs, log, credVars, histVars>>

\* getDeviceStatus of the route's dispatch returns or rejects
ToggleStatusResponse(q, ok) ==
    /\ reqs[q].pc = "status"
    /\ reqs' = [reqs EXCEPT ![q] =
                  ToggleResponse(reqs[q].id, reqs[q].sourceId, IF ok THEN 200 ELSE 500, reqs[q].src,
                                 IF ok THEN "" ELSE "status")]
    /\ UNCHANGED <<now, file, schedVars, runs, log, credVars, histVars>>

\* the client has its response
Collect(q) ==
    /\ reqs[q].pc = "done"
    /\ reqs' = [reqs EXCEPT ![q] = IdleReq]
    /\ UNCHANGED <<now, file, schedVars, runs, log, credVars, histVars>>

----------------------------------------------------------------------------
(* The credential store: integrations.json and the requests that read and   *)
(* write it.  One request is a slot of `upserts`:                           *)
(*   pc = "read"  : saveSmartThingsEntry awaits getKey and readIntegrations *)
(*   pc = "write" : writeIntegrations(data) is pending                      *)
(*   pc = "list"  : the handler awaits getStoredSmartThingsTokens           *)
(*   pc = "done"  : the response                                            *)
(* body, match and prior (what the request carried, the entry the handler   *)
(* found and the collection saveSmartThingsEntry read) are history.         *)

\* the key getKey() reads from the key file, and another key
KeyOnFile == 1
OtherKey == 2

\* the nonces crypto.randomBytes(12) draws
Ivs == {[i \in 1..IV_LEN |-> i], [i \in 1..IV_LEN |-> 255 - 7 * i]}

\* "SmartThings"
DefaultLabel == <<83, 109, 97, 114, 116, 84, 104, 105, 110, 103, 115>>

\* String.prototype.trim on code units
TrimUnits(s) ==
    LET kept == {i \in 1..Len(s) : s[i] # 32}
    IN  IF kept = {} THEN <<>>
        ELSE SubSeq(s, CHOOSE i \in kept : \A j \in kept : i <= j,
                       CHOOSE i \in kept : \A j \in kept : i >= j)

\* an enumeration that stops at the first entry that does not open
UntilFirstFailure(entries, key) ==
    LET failed == {i \in 1..Len(entries) : ~decryptSecret(entries[i].token, key).ok}
        end == IF failed = {} THEN Len(entries)
               ELSE (CHOOSE i \in failed : \A j \in failed : i <= j) - 1
    IN  [n \in 1..end |->
            [id |-> entries[n].id, label |-> entries[n].label, enabled |-> entries[n].enabled,
             token |-> decryptSecret(entries[n].token, key).plain,
             updatedAt |-> entries[n].updatedAt]]

\* getStoredSmartThingsTokens(): the entries that decrypt, decrypted, in
\* store order
getStoredSmartThingsTokens(entries, key) ==
    LET opened == [i \in 1..Len(entries) |-> decryptSecret(entries[i].token, key)]
        kept == SelectSeq([i \in 1..Len(entries) |-> i], LAMBDA i : opened[i].ok)
    IN  [n \in 1..Len(kept) |->
            [id |-> entries[kept[n]].id, label |-> entries[kept[n]].label,
             enabled |-> entries[kept[n]].enabled, token |-> opened[kept[n]].plain,
             updatedAt |-> entries[kept[n]].updatedAt]]

\* what credential resolution sees of the stored entries
Visible(entries) ==
    LET tokens == getStoredSmartThingsTokens(entries, KeyOnFile)
    IN  [n \in 1..Len(tokens) |-> [id |-> tokens[n].id, enabled |-> tokens[n].enabled]]

\* the token of a source of the dispatch configurations: its id's letter
\* twice
TokenOf(id) == IF id = "a" THEN <<97, 97>> ELSE IF id = "b" THEN <<98, 98>> ELSE <<99, 99>>

\* integrations.json holding these sources, saved at process start
StoreOf(srcs) ==
    [i \in 1..Len(srcs) |->
        [id |-> srcs[i].id, label |-> DefaultLabel,
         token |-> encryptSecret(TokenOf(srcs[i].id), KeyOnFile, [j \in 1..IV_LEN |-> j]),
         enabled |-> srcs[i].enabled, updatedAt |-> DayMs]]

IdleUpsert == [pc |-> "idle"]
IdleDispatch == [pc |-> "idle"]
IdleVault == [pc |-> "idle"]

\* the credential store holds the sources, no request on it is in flight and
\* the vault is not in use
CredentialsAtRest ==
    /\ integrations = StoreOf(sources)
    /\ upserts = [u \in 1..MaxUpserts |-> IdleUpsert]
    /\ vault = IdleVault
    /\ dispatch = IdleDispatch

\* the ids crypto.randomBytes(8) can draw for a new entry
CredIdPool == <<"a", "b", "c", "d", "e", "f">>

\* an id no stored entry and no request in flight has
FreshCredId ==
    LET used == {integrations[i].id : i \in 1..Len(integrations)}
                    \cup {upserts[u].id : u \in {v \in 1..MaxUpserts : upserts[v].pc # "idle"}}
        free == {i \in 1..Len(CredIdPool) : CredIdPool[i] \notin used}
    IN  CredIdPool[CHOOSE i \in free : \A j \in free : i <= j]

\* a save that writes the token as it is
ClearEntry(args, t, iv, freshId) ==
    [id |-> IF args.id # "" THEN args.id ELSE freshId,
     label |-> IF args.label # <<>> THEN args.label ELSE DefaultLabel,
     token |-> args.token,
     enabled |-> args.enabled,
     updatedAt |-> t]

\* saveSmartThingsEntry's newEntry; id is "" for undefined
NewEntry(args, t, iv, freshId) ==
    [id |-> IF args.id # "" THEN args.id ELSE freshId,
     label |-> IF args.label # <<>> THEN args.label ELSE DefaultLabel,
     token |-> encryptSecret(args.token, KeyOnFile, iv),
     enabled |-> args.enabled,
     updatedAt |-> t]

\* a save that always pushes the new entry
AlwaysPushed(entries, entry) == Append(entries, entry)

\* entries[idx] = { ...entries[idx], ...newEntry } or entries.push(newEntry)
Upserted(entries, entry) ==
    IF FindIndex(entries, entry.id) # 0
    THEN [entries EXCEPT ![FindIndex(entries, entry.id)] = entry]
    ELSE Append(entries, entry)

UpsertResponse(kind, id, status, entries) ==
    [pc |-> "done", kind |-> kind, id |-> id, status |-> status, entries |-> entries]

\* GET /api/integrations/smartthings
ListSources(u) ==
    /\ upserts[u].pc = "idle"
    /\ upserts' = [upserts EXCEPT ![u] =
                      UpsertResponse("get", "", 200,
                                     getStoredSmartThingsTokens(integrations, KeyOnFile))]
    /\ UNCHANGED <<now, file, schedVars, runs, reqs, log, sources, envToken, integrations,
                   vault, dispatch, histVars>>

\* POST /api/integrations/smartthings up to the first await of
\* saveSmartThingsEntry; token and label are strings, empty for a missing one
UpsertPost(u, token, label) ==
    /\ upserts[u].pc = "idle"
    /\ upserts' = [upserts EXCEPT ![u] =
          IF TrimUnits(token) = <<>> THEN UpsertResponse("post", "", 400, <<>>)
          ELSE [pc |-> "read", kind |-> "post", id |-> "", body |-> [token |-> token],
                args |-> [id |-> "", token |-> TrimUnits(token),
                          label |-> TrimUnits(IF label # <<>> THEN label ELSE DefaultLabel),
                          enabled |-> TRUE]]]
    /\ UNCHANGED <<now, file, schedVars, runs, reqs, log, sources, envToken, integrations,
                   vault, dispatch, histVars>>

\* PATCH /api/integrations/smartthings/:id up to the first await of
\* saveSmartThingsEntry: getStoredSmartThingsTokens, find, the merged arguments
UpsertPatch(u, id, body) ==
    /\ upserts[u].pc = "idle"
    /\ LET existing == getStoredSmartThingsTokens(integrations, KeyOnFile)
           idx == FindIndex(existing, id)
           match == existing[idx]
       IN  upserts' = [upserts EXCEPT ![u] =
              IF idx = 0 THEN UpsertResponse("patch", id, 404, <<>>)
              ELSE [pc |-> "read", kind |-> "patch", id |-> id, body |-> body, match |-> match,
                    seen |-> integrations,
                    args |-> [id |-> id,
                              token |-> IF body.token # <<>> THEN TrimUnits(body.token)
                                        ELSE match.token,
                              label |-> IF body.label # <<>> THEN TrimUnits(body.label)
                                        ELSE match.label,
                              enabled |-> IF Has(body.enabled) THEN Val(body.enabled)
                                          ELSE match.enabled]]]
    /\ UNCHANGED <<now, file, schedVars, runs, reqs, log, sources, envToken, integrations,
                   vault, dispatch, histVars>>

\* saveSmartThingsEntry from the completion of readIntegrations to
\* `await writeIntegrations(integrations)`
UpsertRead(u, iv) ==
    /\ upserts[u].pc = "read"
    /\ LET entry == NewEntry(upserts[u].args, now, iv, FreshCredId)
       IN  upserts' = [upserts EXCEPT ![u] =
                         [upserts[u] EXCEPT !.pc = "write", !.id = entry.id] @@
                         [prior |-> integrations, at |-> now,
                          data |-> Upserted(integrations, entry)]]
    /\ UNCHANGED <<now, file, schedVars, runs, reqs, log, sources, envToken, integrations,
                   vault, dispatch, histVars>>

\* the write completes; the handler goes on to getStoredSmartThingsTokens
UpsertWritten(u) ==
    /\ upserts[u].pc = "write"
    /\ integrations' = upserts[u].data
    /\ sources' = Visible(upserts[u].data)
    /\ upserts' = [upserts EXCEPT ![u] = [upserts[u] EXCEPT !.pc = "list"]]
    /\ UNCHANGED <<now, file, schedVars, runs, reqs, log, envToken, vault, dispatch, histVars>>

\* res.json({ success: true, entries, id })
UpsertRespond(u) ==
    /\ upserts[u].pc = "list"
    /\ upserts' = [upserts EXCEPT ![u] =
                      UpsertResponse(upserts[u].kind, upserts[u].id, 200,
                                     getStoredSmartThingsTokens(integrations, KeyOnFile))]
    /\ UNCHANGED <<now, file, schedVars, runs, reqs, log, sources, envToken, integrations,
                   vault, dispatch, histVars>>

\* one use of the vault: a secret is sealed under a key, the blob is kept,
\* changed in one bit of one symbol or cut to its first bytes, and opened
\* under a key
VaultSeal(iv) ==
    /\ vault.pc = "plain"
    /\ vault' = [pc |-> "sealed", plain |-> vault.plain, key |-> vault.key,
                 sealed |-> encryptSecret(vault.plain, vault.key, iv),
                 blob |-> encryptSecret(vault.plain, vault.key, iv), change |-> "none"]
    /\ UNCHANGED <<now, file, schedVars, runs, reqs, log, sources, envToken, integrations,
                   upserts, dispatch, histVars>>

FlipBit(symbol, b) ==
    IF (symbol \div (2 ^ b)) % 2 = 1 THEN symbol - 2 ^ b ELSE symbol + 2 ^ b

VaultFlip(i, b) ==
    /\ vault.pc = "sealed"
    /\ vault.change = "none"
    /\ i \in 1..Len(vault.blob)
    /\ vault.blob[i] # Pad
    /\ vault' = [vault EXCEPT !.blob[i] = FlipBit(@, b), !.change = "bit"]
    /\ UNCHANGED <<now, file, schedVars, runs, reqs, log, sources, envToken, integrations,
                   upserts, dispatch, histVars>>

VaultCut(n) ==
    /\ vault.pc = "sealed"
    /\ vault.change = "none"
    /\ n < Len(FromBase64(vault.blob))
    /\ vault' = [vault EXCEPT !.blob = ToBase64(SubSeq(FromBase64(vault.blob), 1, n)),
                              !.change = "cut"]
    /\ UNCHANGED <<now, file, schedVars, runs, reqs, log, sources, envToken, integrations,
                   upserts, dispatch, histVars>>

VaultOpen(key) ==
    /\ vault.pc = "sealed"
    /\ vault' = [pc |-> "opened", plain |-> vault.plain, key |-> vault.key,
                 sealed |-> vault.sealed, blob |-> vault.blob, change |-> vault.change,
                 with |-> key, out |-> decryptSecret(vault.blob, key)]
    /\ UNCHANGED <<now, file, schedVars, runs, reqs, log, sources, envToken, integrations,
                   upserts, dispatch, histVars>>

----------------------------------------------------------------------------
(* One remote dispatch, request by request: toggleSmartThingsDevice,       *)
(* sendSmartThingsCommand and getDeviceStatus.                              *)
(*   pc = "cmd"      : the command request is on the wire                   *)
(*   pc = "status"   : the /status request of getDeviceStatus is on the wire*)
(*   pc = "health"   : the /health request is on the wire                   *)
(*   pc = "returned" : the promise resolved with value                      *)
(*   pc = "failed"   : the promise rejected with error                      *)
(* wire is the history of the requests sent, answer the command's response, *)
(* replies the bodies of the /status and /health responses.                 *)

\* every response counts as a success
AnyResponseOk(status) == TRUE

\* Response.ok
ResponseOk(status) == status >= 200 /\ status <= 299

CommandRequest(deviceId, src, capability, command) ==
    [call |-> "command", device |-> deviceId, token |-> src, component |-> "main",
     capability |-> capability, command |-> command]

StateRequest(call, deviceId, src) ==
    [call |-> call, device |-> deviceId, token |-> src, component |-> "",
     capability |-> "", command |-> ""]

Failed(d, error) == [d EXCEPT !.pc = "failed", !.error = Some(error)]

\* sendSmartThingsCommand up to `await fetch(...)`
sendSmartThingsCommand(origin, on, deviceId, src, capability, command) ==
    [pc |-> "cmd", origin |-> origin, on |-> on, device |-> deviceId, source |-> src,
     wire |-> <<CommandRequest(deviceId, src, capability, command)>>,
     answer |-> Absent, replies |-> <<>>, value |-> Absent, error |-> Absent]

\* toggleSmartThingsDevice(deviceId, on, sourceId) up to the fetch, or to its
\* throw when no token entry is found
DispatchToggle(deviceId, on, sourceId) ==
    /\ dispatch.pc = "idle"
    /\ LET tokens == resolveSmartThingsToken(envToken, sources)
           entry == PickTokenEntry(tokens, sourceId)
       IN  dispatch' =
              IF Has(entry)
              THEN sendSmartThingsCommand("toggle", Some(on), deviceId, Val(entry).id, "switch",
                                          IF on THEN "on" ELSE "off")
              ELSE [pc |-> "failed", origin |-> "toggle", on |-> Some(on), device |-> deviceId,
                    source |-> "", wire |-> <<>>, answer |-> Absent, replies |-> <<>>,
                    value |-> Absent, error |-> Some([message |-> <<ResolveError(tokens)>>])]
    /\ UNCHANGED <<now, file, schedVars, runs, reqs, log, sources, envToken, integrations,
                   upserts, vault, histVars>>

\* sendSmartThingsCommand as the device_command branch calls it, with the
\* token entry it picked
DispatchCommand(deviceId, src, capability, command) ==
    /\ dispatch.pc = "idle"
    /\ dispatch' = sendSmartThingsCommand("command", Absent, deviceId, src, capability, command)
    /\ UNCHANGED <<now, file, schedVars, runs, reqs, log, sources, envToken, integrations,
                   upserts, vault, histVars>>

\* the command's response: not ok, the text of the body ("" when it cannot
\* be read) goes into the thrown error; ok, the body is parsed as JSON and
\* getDeviceStatus sends its first request
CommandAnswered(status, body) ==
    /\ dispatch.pc = "cmd"
    /\ LET d == [dispatch EXCEPT !.answer = Some([status |-> status, body |-> body])]
       IN  dispatch' =
              IF ~ResponseOk(status)
              THEN Failed(d, [message |-> <<"SmartThings Command fehlgeschlagen", status,
                                           IF body.kind = "unreadable" THEN "" ELSE body.text>>])
              ELSE IF body.kind # "json"
              THEN Failed(d, [message |-> <<"SyntaxError">>])
              ELSE [d EXCEPT !.pc = "status",
                             !.wire = Append(@, StateRequest("status", d.device, d.source))]
    /\ UNCHANGED <<now, file, schedVars, runs, reqs, log, sources, envToken, integrations,
                   upserts, vault, histVars>>

\* a fetch rejects (no connection)
DispatchUnreachable ==
    /\ dispatch.pc \in {"cmd", "status", "health"}
    /\ dispatch' = Failed(dispatch, [message |-> <<"fetch failed">>])
    /\ UNCHANGED <<now, file, schedVars, runs, reqs, log, sources, envToken, integrations,
                   upserts, vault, histVars>>

\* the /status response: its body parsed, components.main.switch.switch.value
\* compared with "on"; then the /health request
StatusAnswered(body) ==
    /\ dispatch.pc = "status"
    /\ dispatch' =
          IF body.kind # "json" THEN Failed(dispatch, [message |-> <<"SyntaxError">>])
          ELSE [dispatch EXCEPT !.pc = "health", !.replies = Append(@, body),
                                !.wire = Append(@, StateRequest("health", dispatch.device,
                                                                dispatch.source))]
    /\ UNCHANGED <<now, file, schedVars, runs, reqs, log, sources, envToken, integrations,
                   upserts, vault, histVars>>

\* the /health response: state === "ONLINE"; sendSmartThingsCommand returns
\* { result, state, source }
HealthAnswered(body) ==
    /\ dispatch.pc = "health"
    /\ dispatch' =
          IF body.kind # "json" THEN Failed(dispatch, [message |-> <<"SyntaxError">>])
          ELSE [dispatch EXCEPT
                   !.pc = "returned", !.replies = Append(@, body),
                   !.value = Some([result |-> Val(dispatch.answer).body.text,
                                   state |-> [on |-> dispatch.replies[1].text = "on",
                                              online |-> body.text = "ONLINE"],
                                   source |-> dispatch.source])]
    /\ UNCHANGED <<now, file, schedVars, runs, reqs, log, sources, envToken, integrations,
                   upserts, vault, histVars>>

\* the caller has the outcome
DispatchCollect ==
    /\ dispatch.pc \in {"returned", "failed"}
    /\ dispatch' = IdleDispatch
    /\ UNCHANGED <<now, file, schedVars, runs, reqs, log, sources, envToken, integrations,
                   upserts, vault, histVars>>

----------------------------------------------------------------------------
(* The wall clock. *)

\* the instants the clock visits: the first MaxMinutes minutes of MaxDays
\* days, at the given offsets into the minute
Instants(offsets) ==
    {d * DayMs + m * MinuteMs + o : d \in 1..MaxDays, m \in 0..(MaxMinutes - 1), o \in offsets}

CoarsePoints == Instants({0, 1000})
FinePoints == Instants({0, 1, 1000})

\* time passes; the clock does not move backwards
Advance(t) ==
    /\ t > now
    /\ now' = t
    /\ launched' = {h \in launched : h.slot = SlotKey(t)}
    /\ UNCHANGED <<file, schedVars, runs, reqs, log, credVars, epoch, edits>>

----------------------------------------------------------------------------
(* The state after startup: the data files as a previous run left them, the *)
(* timer started by applyRoutineInterval and its first evaluation pass.     *)


ToggleAction(id, device, on) ==
    [id |-> Some(id), deviceId |-> Some(device), sourceId |-> Absent, deviceName |-> Absent,
     type |-> "device_toggle", desiredState |-> [t |-> "boolean", v |-> on],
     on |-> [t |-> "undefined"], capability |-> <<>>, command |-> <<>>]

CommandAction(id, device, capability, command) ==
    [id |-> Some(id), deviceId |-> Some(device), sourceId |-> Absent, deviceName |-> Absent,
     type |-> "device_command", desiredState |-> [t |-> "undefined"],
     on |-> [t |-> "undefined"], capability |-> capability, command |-> command]

TimePayload(name, time, days, actions) ==
    [name |-> Some(name), enabled |-> Absent,
     trigger |-> Some([type |-> "time", time |-> Some(time), days |-> Some(days),
                       everyMinutes |-> [t |-> "undefined"]]),
     actions |-> Some(actions)]

IntervalPayload(name, n, actions) ==
    [name |-> Some(name), enabled |-> Absent,
     trigger |-> Some([type |-> "interval", time |-> Absent, days |-> Absent,
                       everyMinutes |-> [t |-> "number", v |-> n]]),
     actions |-> Some(actions)]

\* a routine as POST /api/routines stored it at time t
Created(id, payload, t) == buildRoutineFromPayload(payload, Absent, t, id, <<>>).routine

T0000 == <<"0", "0", ":", "0", "0">>
T0001 == <<"0", "0", ":", "0", "1">>

TimeRoutine(time, days) ==
    Created("r1", TimePayload(<<"A">>, time, days, <<ToggleAction("a1", "d1", TRUE)>>), DayMs)

IntervalRoutine(n) ==
    Created("r2", IntervalPayload(<<"B">>, n, <<ToggleAction("a2", "d2", FALSE)>>), DayMs)

\* routines.json as earlier requests left it: one time routine (every day, or
\* Fridays only; day 1 of the clock is a Friday), or one interval routine
StoredFiles ==
    {<<TimeRoutine(time, days)>> : time \in {T0000, T0001}, days \in {<<>>, <<5>>}}
    \cup {<<IntervalRoutine(1)>>}

IntervalFiles == {<<IntervalRoutine(n)>> : n \in {MinEveryMinutes, MaxEveryMinutes}}

StoredSources == <<[id |-> "a", enabled |-> FALSE], [id |-> "b", enabled |-> TRUE]>>

\* settings.json as ensureUserFile creates it
DefaultSettings == [t |-> "number", v |-> DEFAULT_ROUTINE_CHECK_INTERVAL_MS]

\* readSettings().routineCheckIntervalMs || DEFAULT: a value that is not a
\* number reads as the default, and so does 0
InitialPeriod(stored) ==
    [t |-> "number",
     v |-> IF stored.t = "number" /\ stored.v # 0 THEN stored.v
           ELSE DEFAULT_ROUTINE_CHECK_INTERVAL_MS]

\* process start with one of these settings files: the module-level state,
\* then
\* `await applyRoutineInterval(initialSettings.routineCheckIntervalMs || DEFAULT)`
StartupFrom(routines, stored) ==
    /\ settings \in stored
    /\ routineRunTracker = [id \in RoutineIds |-> <<>>]
    /\ routineIntervalMs = ApplyPeriod(InitialPeriod(settings))
    /\ routineIntervalHandle = NewHandle({})
    /\ timers = {NewHandle({})}
    /\ passes = StartPass([p \in 1..MaxPasses |-> IdlePass], routines)
    /\ runs = [k \in 1..MaxRuns |-> IdleRun]
    /\ reqs = [q \in 1..MaxReqs |-> IdleReq]

\* process start with the settings file of a fresh install
Startup(routines) == StartupFrom(routines, {DefaultSettings})

\* no credential is configured in this configuration (a fresh install): every
\* action of a launched run ends at the credential resolution
InitWith(files) ==
    /\ now = DayMs
    /\ file \in files
    /\ Startup(file)
    /\ log = <<>>
    /\ sources = <<>>
    /\ envToken = FALSE
    /\ CredentialsAtRest
    /\ launched = {}
    /\ epoch = 1
    /\ edits = 0

Init == InitWith(StoredFiles)

SettingsInputs == {[t |-> "number", v |-> MinIntervalMs], [t |-> "undefined"]}

RequestIds == RoutineIds \cup {"r9"}

\* the scheduler: the clock, the timer, evaluation passes (overlapping ones
\* included) and interval reconfiguration
Next ==
    \/ \E t \in CoarsePoints : Advance(t)
    \/ \E h \in timers : Tick(h)
    \/ \E p \in 1..MaxPasses : EvalDecide(p)
    \/ \E p \in 1..MaxPasses : EvalWrite(p)
    \/ \E input \in SettingsInputs : PostSettings(input)
    \/ \E k \in 1..MaxRuns : RunSend(k)
    \/ \E k \in 1..MaxRuns : RunSettle(k)

Spec == Init /\ [][Next]_vars

\* the scheduler of an interval routine, on the finer clock
InitInterval == InitWith(IntervalFiles)

NextInterval ==
    \/ \E t \in FinePoints : Advance(t)
    \/ \E h \in timers : Tick(h)
    \/ \E p \in 1..MaxPasses : EvalDecide(p)
    \/ \E p \in 1..MaxPasses : EvalWrite(p)
    \/ \E k \in 1..MaxRuns : RunSend(k)
    \/ \E k \in 1..MaxRuns : RunSettle(k)

SpecInterval == InitInterval /\ [][NextInterval]_vars

\* the scheduler with routine edits, on the minute starts
EditFiles == {<<TimeRoutine(T0000, <<>>)>>, <<IntervalRoutine(1)>>}

EditPayloads ==
    {[name |-> Absent, enabled |-> Absent, actions |-> Absent,
      trigger |-> Some([type |-> "interval", time |-> Absent, days |-> Absent,
                        everyMinutes |-> [t |-> "number", v |-> 1]])],
     [name |-> Absent, enabled |-> Absent, actions |-> Absent,
      trigger |-> Some([type |-> "time", time |-> Some(T0000),
                        days |-> Some(<<>>), everyMinutes |-> [t |-> "undefined"]])]}

InitEdit == InitWith(EditFiles)

NextEdit ==
    \/ \E t \in Instants({0}) : Advance(t)
    \/ \E h \in timers : Tick(h)
    \/ \E p \in 1..MaxPasses : EvalDecide(p)
    \/ \E p \in 1..MaxPasses : EvalWrite(p)
    \/ \E input \in {[t |-> "undefined"]} : PostSettings(input)
    \/ \E k \in 1..MaxRuns : RunSend(k)
    \/ \E k \in 1..MaxRuns : RunSettle(k)
    \/ \E q \in 1..MaxReqs, id \in RequestIds, payload \in EditPayloads :
            PatchRoutine(q, id, payload)
    \/ \E q \in 1..MaxReqs : PatchWrite(q)
    \/ \E q \in 1..MaxReqs : Collect(q)

SpecEdit == InitEdit /\ [][NextEdit]_vars

\* the process exits and is started again: the module-level state is new,
\* the data files are what was written
Restart ==
    /\ epoch < MaxEpochs
    /\ epoch' = epoch + 1
    /\ routineRunTracker' = [id \in RoutineIds |-> <<>>]
    /\ routineIntervalMs' = ApplyPeriod(InitialPeriod(settings))
    /\ settings' = settings
    /\ routineIntervalHandle' = NewHandle({})
    /\ timers' = {NewHandle({})}
    /\ passes' = StartPass([p \in 1..MaxPasses |-> IdlePass], file)
    /\ runs' = [k \in 1..MaxRuns |-> IdleRun]
    /\ reqs' = [q \in 1..MaxReqs |-> IdleReq]
    /\ UNCHANGED <<now, file, log, credVars, launched, edits>>

InitRestart == InitWith({<<TimeRoutine(T0000, <<>>)>>})

NextRestart ==
    \/ \E t \in CoarsePoints : Advance(t)
    \/ \E h \in timers : Tick(h)
    \/ \E p \in 1..MaxPasses : EvalDecide(p)
    \/ \E p \in 1..MaxPasses : EvalWrite(p)
    \/ \E k \in 1..MaxRuns : RunSend(k)
    \/ \E k \in 1..MaxRuns : RunSettle(k)
    \/ Restart

SpecRestart == InitRestart /\ [][NextRestart]_vars

\* the tick interval: the process starts from a settings file that a previous
\* run or the operator left (routineCheckIntervalMs a number in or out of the
\* bounds, 0, a string, or missing), set-interval requests arrive, the process
\* restarts; the routine store is empty
SettingsFiles ==
    {[t |-> "number", v |-> n] :
        n \in {0, 1000, MinIntervalMs, DEFAULT_ROUTINE_CHECK_INTERVAL_MS, MaxIntervalMs,
               2 * MaxIntervalMs}}
        \cup {[t |-> "string"], [t |-> "undefined"]}

IntervalInputs ==
    {[t |-> "number", v |-> n] : n \in {0, 1000, MinIntervalMs, 60000, 2 * MaxIntervalMs}}
        \cup {[t |-> "string"], [t |-> "undefined"]}

InitSettings ==
    /\ now = DayMs
    /\ file = <<>>
    /\ StartupFrom(file, SettingsFiles)
    /\ log = <<>>
    /\ sources = <<>>
    /\ envToken = FALSE
    /\ CredentialsAtRest
    /\ launched = {}
    /\ epoch = 1
    /\ edits = 0

NextSettings ==
    \/ \E t \in Instants({0}) : Advance(t)
    \/ \E h \in timers : Tick(h)
    \/ \E p \in 1..MaxPasses : EvalDecide(p)
    \/ \E input \in IntervalInputs : PostSettings(input)
    \/ Restart

SpecSettings == InitSettings /\ [][NextSettings]_vars

\* routine runs against configured credentials: run-now requests and the
\* scheduler's launches, with remote calls that succeed or fail
SwitchChars == <<"s", "w">>
LevelChars == <<"s", "e", "t">>

ThreeActions ==
    <<ToggleAction("a1", "d1", TRUE),
      CommandAction("a2", "d2", SwitchChars, LevelChars),
      ToggleAction("a3", "d1", FALSE)>>

Disabled(payload) == [payload EXCEPT !.enabled = Some(FALSE)]

\* one routine each: a Time routine of three actions that is not due in the
\* first minute, a disabled Interval routine of two actions, and a Time
\* routine of one action that the startup pass fires
RunFiles ==
    {<<Created("r1", TimePayload(<<"A">>, T0001, <<>>, ThreeActions), DayMs)>>,
     <<Created("r2", Disabled(IntervalPayload(<<"B">>, 1, SubSeq(ThreeActions, 1, 2))),
               DayMs)>>,
     <<TimeRoutine(T0000, <<>>)>>}

\* the instants of the first minute
FirstMinute == {t \in CoarsePoints : t < DayMs + MinuteMs}

InitRun ==
    /\ now = DayMs
    /\ file \in RunFiles
    /\ Startup(file)
    /\ log = <<>>
    /\ sources = StoredSources
    /\ envToken = FALSE
    /\ CredentialsAtRest
    /\ launched = {}
    /\ epoch = 1
    /\ edits = 0

NextRun ==
    \/ \E t \in FirstMinute : Advance(t)
    \/ \E h \in timers : Tick(h)
    \/ \E p \in 1..MaxPasses : EvalDecide(p)
    \/ \E p \in 1..MaxPasses : EvalWrite(p)
    \/ \E k \in 1..MaxRuns : RunSend(k)
    \/ \E k \in 1..MaxRuns, ok \in BOOLEAN : RunCommandResponse(k, ok)
    \/ \E k \in 1..MaxRuns, ok \in BOOLEAN : RunStatusResponse(k, ok)
    \/ \E k \in 1..MaxRuns : RunSettle(k)
    \/ \E q \in 1..MaxReqs, id \in RequestIds : RunNow(q, id)
    \/ \E q \in 1..MaxReqs : RunNowRespond(q)
    \/ \E q \in 1..MaxReqs : Collect(q)

SpecRun == InitRun /\ [][NextRun]_vars

\* two routines fired by the scheduler, with remote calls that succeed, fail
\* or never return, over the first minutes of day 1
FireFiles == {<<TimeRoutine(T0000, <<>>), IntervalRoutine(1)>>}

FirstDay == {t \in Instants({0}) : t < 2 * DayMs}

InitFire ==
    /\ now = DayMs
    /\ file \in FireFiles
    /\ Startup(file)
    /\ log = <<>>
    /\ sources = StoredSources
    /\ envToken = FALSE
    /\ CredentialsAtRest
    /\ launched = {}
    /\ epoch = 1
    /\ edits = 0

NextFire ==
    \/ \E t \in FirstDay : Advance(t)
    \/ \E h \in timers : Tick(h)
    \/ \E p \in 1..MaxPasses : EvalDecide(p)
    \/ \E p \in 1..MaxPasses : EvalWrite(p)
    \/ \E k \in 1..MaxRuns : RunSend(k)
    \/ \E k \in 1..MaxRuns, ok \in BOOLEAN : RunCommandResponse(k, ok)
    \/ \E k \in 1..MaxRuns, ok \in BOOLEAN : RunStatusResponse(k, ok)
    \/ \E k \in 1..MaxRuns : RunHang(k)
    \/ \E k \in 1..MaxRuns : RunSettle(k)

SpecFire == InitFire /\ [][NextFire]_vars

\* create and update requests on a quiet scheduler: the bodies vary in one
\* field at a time around a valid body
LongName == [i \in 1..(MaxNameLen + 1) |-> "x"]

NameInputs ==
    {Absent, Some(<<>>), Some(<<" ", " ">>), Some(<<"A">>), Some(<<" ", "A", "b", " ">>),
     Some(LongName)}

TimeInputs ==
    {Absent, Some(<<>>),
     Some(T0000), Some(<<"2", "3", ":", "5", "9">>), Some(<<"0", "9", ":", "3", "0">>),
     Some(<<"1", "9", ":", "0", "5">>),
     Some(<<"2", "4", ":", "0", "0">>), Some(<<"9", ":", "3", "0">>),
     Some(<<"1", "2", ":", "6", "0">>), Some(<<"1", "2", ":", "3", "4", "5">>),
     Some(<<"a", "b", ":", "c", "d">>), Some(<<"1", "2", "-", "3", "0">>),
     Some(<<" ", "0", "9", ":", "3", "0">>), Some(<<"0", "9", ":", "3", "0", " ">>),
     Some(<<"0", "9", " ", ":", "3", "0">>)}

DaysInputs == {Absent, Some(<<>>), Some(<<1, 5, 1>>), Some(<<7, 0, -1, 6>>)}

EveryMinutesInputs ==
    {[t |-> "undefined"], [t |-> "NaN"]}
    \cup {[t |-> "number", v |-> n] : n \in {-3, 0, 1, 5, 1440, 1441, 2000}}

\* raw actions of a request body
NoDevice(action) == [action EXCEPT !.deviceId = Absent]

ToggleByOn(id, device, on) ==
    [ToggleAction(id, device, TRUE) EXCEPT !.desiredState = [t |-> "undefined"],
                                           !.on = [t |-> "boolean", v |-> on]]

ToggleUndecided(id, device) ==
    [ToggleAction(id, device, TRUE) EXCEPT !.desiredState = [t |-> "string", v |-> "on"]]

OtherType(action) == [action EXCEPT !.type = "scene"]

NoId(action) == [action EXCEPT !.id = Absent]

\* more actions than the cap, the second of them invalid
ManyActions ==
    [i \in 1..(MAX_ACTIONS_PER_ROUTINE + 2) |->
        IF i = 2 THEN NoDevice(ToggleAction("x", "d1", TRUE))
        ELSE IF i % 2 = 0 THEN ToggleAction("n" \o ToString(i), "d1", TRUE)
        ELSE CommandAction("n" \o ToString(i), "d2", SwitchChars, LevelChars)]

ActionsInputs ==
    {Absent, Some(<<>>),
     Some(<<ToggleAction("a1", "d1", TRUE)>>),
     Some(<<NoDevice(ToggleAction("a1", "d1", TRUE))>>),
     Some(<<ToggleUndecided("a1", "d1"), OtherType(ToggleAction("a2", "d1", TRUE))>>),
     Some(<<CommandAction("a1", "d2", <<" ">>, LevelChars),
            CommandAction("a2", "d2", SwitchChars, <<>>)>>),
     Some(<<ToggleUndecided("a1", "d1"), ToggleByOn("a2", "d1", FALSE),
            NoDevice(CommandAction("a3", "d2", SwitchChars, LevelChars)),
            CommandAction("a4", "d2", <<" ", "s", "w", " ">>, LevelChars),
            OtherType(ToggleAction("a5", "d1", TRUE)),
            NoId(ToggleAction("a6", "d3", TRUE))>>),
     Some(ManyActions)}

TimeTriggerInput(time, days) ==
    [type |-> "time", time |-> time, days |-> days, everyMinutes |-> [t |-> "undefined"]]

IntervalTriggerInput(everyMinutes) ==
    [type |-> "interval", time |-> Absent, days |-> Absent, everyMinutes |-> everyMinutes]

TriggerInputs ==
    {Absent,
     Some([type |-> "sunrise", time |-> Some(T0000), days |-> Absent,
           everyMinutes |-> [t |-> "number", v |-> 5]])}
    \cup {Some(TimeTriggerInput(time, Some(<<>>))) : time \in TimeInputs}
    \cup {Some(TimeTriggerInput(Some(T0000), days)) : days \in DaysInputs}
    \cup {Some(IntervalTriggerInput(n)) : n \in EveryMinutesInputs}

\* a valid body, and the bodies that differ from it in one field
ValidBody ==
    [name |-> Some(<<"A">>), enabled |-> Absent,
     trigger |-> Some(IntervalTriggerInput([t |-> "number", v |-> 5])),
     actions |-> Some(<<ToggleAction("a1", "d1", TRUE)>>)]

EmptyBody == [name |-> Absent, enabled |-> Absent, trigger |-> Absent, actions |-> Absent]

Variations(body) ==
    {[body EXCEPT !.name = name] : name \in NameInputs}
    \cup {[body EXCEPT !.enabled = enabled] : enabled \in {Absent, Some(TRUE), Some(FALSE)}}
    \cup {[body EXCEPT !.trigger = trigger] : trigger \in TriggerInputs}
    \cup {[body EXCEPT !.actions = actions] : actions \in ActionsInputs}

CreateBodies == Variations(ValidBody)

UpdateBodies == Variations(EmptyBody) \cup Variations(ValidBody)

\* the stored routine ran a minute before the process started
CreateFiles == {<<[TimeRoutine(T0001, <<5>>) EXCEPT !.lastRunAt = DayMs - MinuteMs,
                                                     !.createdAt = DayMs - HourMs,
                                                     !.updatedAt = DayMs - HourMs]>>}

InitCreate == InitWith(CreateFiles)

NextCreate ==
    \/ \E t \in FirstMinute : Advance(t)
    \/ \E p \in 1..MaxPasses : EvalDecide(p)
    \/ \E q \in 1..MaxReqs, payload \in CreateBodies : PostRoutine(q, payload)
    \/ \E q \in 1..MaxReqs, id \in RequestIds, payload \in UpdateBodies :
            PatchRoutine(q, id, payload)
    \/ \E q \in 1..MaxReqs : StoreWritten(q)
    \/ \E q \in 1..MaxReqs : Collect(q)

SpecCreate == InitCreate /\ [][NextCreate]_vars

\* creates, updates, deletes and run-now while the scheduler runs: the startup
\* pass fires the stored routine r2, ticks start further passes, one pass at
\* a time; the routine
\* created with more actions than the cap is created disabled, and run-now
\* is asked for r2 and for an unknown id
StoreCreateBodies ==
    {[ValidBody EXCEPT !.name = Some(<<" ">>)],
     [ValidBody EXCEPT !.trigger = Some(IntervalTriggerInput([t |-> "number", v |-> 2000]))],
     [ValidBody EXCEPT !.trigger =
         Some(TimeTriggerInput(Some(<<" ", "0", "9", ":", "3", "0">>), Some(<<7, 0, -1, 6>>))),
                       !.actions = Some(ManyActions), !.enabled = Some(FALSE)]}

StoreUpdateBodies ==
    {[EmptyBody EXCEPT !.trigger = Some(IntervalTriggerInput([t |-> "number", v |-> 0]))],
     [EmptyBody EXCEPT !.actions =
         Some(<<ToggleUndecided("a1", "d1"), ToggleByOn("a2", "d1", FALSE),
                CommandAction("a4", "d2", <<" ", "s", "w", " ">>, LevelChars)>>)]}

InitStore == InitWith({<<IntervalRoutine(1)>>})

NextStore ==
    \/ \E h \in timers : FreePasses = 1..MaxPasses /\ Tick(h)
    \/ \E p \in 1..MaxPasses : Cardinality(launched) < MaxLaunches /\ EvalDecide(p)
    \/ \E p \in 1..MaxPasses : EvalWrite(p)
    \/ \E k \in 1..MaxRuns : RunSend(k)
    \/ \E k \in 1..MaxRuns : RunSettle(k)
    \/ \E q \in 1..MaxReqs, payload \in StoreCreateBodies : PostRoutine(q, payload)
    \/ \E q \in 1..MaxReqs, id \in {"r2", "r9"}, payload \in StoreUpdateBodies :
            PatchRoutine(q, id, payload)
    \/ \E q \in 1..MaxReqs, id \in RoutineIds : DeleteRoutine(q, id)
    \/ \E q \in 1..MaxReqs : StoreWritten(q)
    \/ \E q \in 1..MaxReqs, id \in {"r2", "r9"} : RunNow(q, id)
    \/ \E q \in 1..MaxReqs : RunNowRespond(q)
    \/ \E q \in 1..MaxReqs : Collect(q)

SpecStore == InitStore /\ [][NextStore]_vars

\* the vault on its own: secrets of zero to three bytes, among them a
\* two-byte letter and a surrogate that has no partner, sealed under either
\* key with either nonce
Plaintexts == {<<>>, <<97>>, <<97, 98>>, <<233, 97>>, <<55296>>}

InitVault ==
    /\ now = DayMs
    /\ file = <<>>
    /\ Startup(file)
    /\ log = <<>>
    /\ sources = <<>>
    /\ envToken = FALSE
    /\ integrations = <<>>
    /\ upserts = [u \in 1..MaxUpserts |-> IdleUpsert]
    /\ dispatch = IdleDispatch
    /\ vault \in {[pc |-> "plain", plain |-> p, key |-> k] :
                     p \in Plaintexts, k \in {KeyOnFile, OtherKey}}
    /\ launched = {}
    /\ epoch = 1
    /\ edits = 0

NextVault ==
    \/ \E iv \in Ivs : VaultSeal(iv)
    \/ \E i \in 1..(4 * (IV_LEN + TAG_LEN + 4)), b \in 0..5 : VaultFlip(i, b)
    \/ \E n \in 0..(IV_LEN + TAG_LEN + 2) : VaultCut(n)
    \/ \E k \in {KeyOnFile, OtherKey} : VaultOpen(k)

SpecVault == InitVault /\ [][NextVault]_vars

\* the credential store: creates, updates and enumerations interleaved on
\* integrations.json as earlier saves left it, while time passes
CredSources ==
    {<<>>, <<[id |-> "a", enabled |-> TRUE]>>,
     <<[id |-> "a", enabled |-> TRUE], [id |-> "b", enabled |-> FALSE]>>}

PostTokens == {<<32>>, <<32, 116>>}
PostLabels == {<<>>, <<76>>}

PatchBody(token, label, enabled) == [token |-> token, label |-> label, enabled |-> enabled]

\* the empty body, each field alone, a blank label, and all fields
PatchBodies ==
    {PatchBody(<<>>, <<>>, Absent), PatchBody(<<>>, <<>>, Some(FALSE)),
     PatchBody(<<>>, <<88>>, Absent), PatchBody(<<120, 32>>, <<>>, Absent),
     PatchBody(<<>>, <<32>>, Absent), PatchBody(<<120>>, <<88>>, Some(FALSE))}

InitCredWith(files) ==
    /\ now = DayMs
    /\ file = <<>>
    /\ Startup(file)
    /\ log = <<>>
    /\ envToken = FALSE
    /\ integrations \in files
    /\ sources = Visible(integrations)
    /\ upserts = [u \in 1..MaxUpserts |-> IdleUpsert]
    /\ vault = IdleVault
    /\ dispatch = IdleDispatch
    /\ launched = {}
    /\ epoch = 1
    /\ edits = 0

InitCred == InitCredWith({StoreOf(srcs) : srcs \in CredSources})

NextCred ==
    \/ Advance(DayMs + MinuteMs)
    \/ \E u \in 1..MaxUpserts : ListSources(u)
    \/ \E u \in 1..MaxUpserts, token \in PostTokens, label \in PostLabels :
          Len(integrations) < MaxEntries /\ UpsertPost(u, token, label)
    \/ \E u \in 1..MaxUpserts, id \in {"a", "z"}, body \in PatchBodies :
          UpsertPatch(u, id, body)
    \/ \E u \in 1..MaxUpserts, iv \in Ivs : UpsertRead(u, iv)
    \/ \E u \in 1..MaxUpserts : UpsertWritten(u)
    \/ \E u \in 1..MaxUpserts : UpsertRespond(u)

SpecCred == InitCred /\ [][NextCred]_vars

\* integrations.json with entries that do not open: sealed under another
\* key, a bit of the ciphertext or of the tag changed, the ciphertext cut
\* short, or no token at all
EntryKinds == {"sealed", "other-key", "bit", "tag", "cut", "empty"}

TokenAs(kind, id) ==
    LET iv == [j \in 1..IV_LEN |-> j]
        blob == encryptSecret(TokenOf(id), KeyOnFile, iv)
    IN  CASE kind = "sealed" -> blob
          [] kind = "other-key" -> encryptSecret(TokenOf(id), OtherKey, iv)
          [] kind = "bit" -> [blob EXCEPT ![Len(blob) - 1] = FlipBit(@, 3)]
          [] kind = "tag" -> [blob EXCEPT ![(4 * IV_LEN) \div 3 + 1] = FlipBit(@, 0)]
          [] kind = "cut" -> ToBase64(SubSeq(FromBase64(blob), 1, IV_LEN + TAG_LEN + 1))
          [] kind = "empty" -> <<>>

EnumFile(kinds) ==
    [i \in 1..Len(kinds) |->
        [id |-> CredIdPool[i], label |-> DefaultLabel,
         token |-> TokenAs(kinds[i], CredIdPool[i]), enabled |-> TRUE, updatedAt |-> DayMs]]

EnumFiles == {EnumFile(kinds) : kinds \in [1..3 -> EntryKinds]}

InitEnum == InitCredWith(EnumFiles)

NextEnum ==
    \/ \E u \in 1..MaxUpserts : ListSources(u)
    \/ \E u \in 1..MaxUpserts, id \in {"a", "b"} :
          UpsertPatch(u, id, PatchBody(<<>>, <<>>, Some(FALSE)))
    \/ \E u \in 1..MaxUpserts, iv \in Ivs : UpsertRead(u, iv)
    \/ \E u \in 1..MaxUpserts : UpsertWritten(u)
    \/ \E u \in 1..MaxUpserts : UpsertRespond(u)

SpecEnum == InitEnum /\ [][NextEnum]_vars

\* the activity log: the startup pass fires an interval routine, stored with
\* or without a name, whose actions are a toggle with a device name, a command
\* and a toggle without one; remote calls succeed or fail
LogActions ==
    <<[ToggleAction("a1", "d1", TRUE) EXCEPT !.deviceName = Some(<<"L">>)],
      CommandAction("a2", "d2", SwitchChars, LevelChars),
      ToggleAction("a3", "d3", FALSE)>>

LogFiles ==
    {<<Created("r1", IntervalPayload(<<"A">>, 1, LogActions), DayMs)>>,
     <<Created("r1", [IntervalPayload(<<"A">>, 1, LogActions) EXCEPT !.name = Absent], DayMs)>>}

InitLog ==
    /\ now = DayMs
    /\ file \in LogFiles
    /\ Startup(file)
    /\ log = <<>>
    /\ sources \in {StoredSources, <<>>}
    /\ envToken = FALSE
    /\ CredentialsAtRest
    /\ launched = {}
    /\ epoch = 1
    /\ edits = 0

NextLog ==
    \/ \E h \in timers : Tick(h)
    \/ \E p \in 1..MaxPasses : EvalDecide(p)
    \/ \E p \in 1..MaxPasses : EvalWrite(p)
    \/ \E k \in 1..MaxRuns : RunSend(k)
    \/ \E k \in 1..MaxRuns, ok \in BOOLEAN : RunCommandResponse(k, ok)
    \/ \E k \in 1..MaxRuns, ok \in BOOLEAN : RunStatusResponse(k, ok)
    \/ \E k \in 1..MaxRuns : RunSettle(k)

SpecLog == InitLog /\ [][NextLog]_vars

\* credential resolution: the stored sources and the environment token vary;
\* the routine, fired by the startup pass, has a toggle and a command without
\* sourceId and actions naming the sources a and b; the device route toggles
\* with or without a sourceId
DispatchSources ==
    {<<>>,
     <<[id |-> "a", enabled |-> FALSE]>>,
     StoredSources,
     <<[id |-> "a", enabled |-> TRUE], [id |-> "b", enabled |-> TRUE]>>}

FromSource(action, sourceId) == [action EXCEPT !.sourceId = Some(sourceId)]

DispatchActions ==
    <<ToggleAction("a1", "d1", TRUE),
      CommandAction("a2", "d2", SwitchChars, LevelChars),
      FromSource(ToggleAction("a3", "d1", FALSE), "a"),
      FromSource(CommandAction("a4", "d2", SwitchChars, LevelChars), "b")>>

DispatchFiles == {<<Created("r2", IntervalPayload(<<"B">>, 1, DispatchActions), DayMs)>>}

SourceIdInputs == {Absent, Some("a"), Some("b")}

InitDispatch ==
    /\ now = DayMs
    /\ file \in DispatchFiles
    /\ Startup(file)
    /\ log = <<>>
    /\ sources \in DispatchSources
    /\ envToken \in BOOLEAN
    /\ CredentialsAtRest
    /\ launched = {}
    /\ epoch = 1
    /\ edits = 0

NextDispatch ==
    \/ \E p \in 1..MaxPasses : EvalDecide(p)
    \/ \E p \in 1..MaxPasses : EvalWrite(p)
    \/ \E k \in 1..MaxRuns : RunSend(k)
    \/ \E k \in 1..MaxRuns, ok \in BOOLEAN : RunCommandResponse(k, ok)
    \/ \E k \in 1..MaxRuns, ok \in BOOLEAN : RunStatusResponse(k, ok)
    \/ \E k \in 1..MaxRuns : RunSettle(k)
    \/ \E q \in 1..MaxReqs, sourceId \in SourceIdInputs : ToggleRequest(q, "d1", sourceId)
    \/ \E q \in 1..MaxReqs, ok \in BOOLEAN : ToggleCommandResponse(q, ok)
    \/ \E q \in 1..MaxReqs, ok \in BOOLEAN : ToggleStatusResponse(q, ok)
    \/ \E q \in 1..MaxReqs : Collect(q)

SpecDispatch == InitDispatch /\ [][NextDispatch]_vars

\* one dispatch at a time against a remote service that answers with success
\* (200, 202), refuses (401), fails (500), answers in JSON, in plain text or
\* with a body that cannot be read, or cannot be reached
CommandStatuses == {200, 202, 401, 500}

Json(text) == [kind |-> "json", text |-> text]

CommandBodies == {Json("{}"), [kind |-> "text", text |-> "denied"],
                  [kind |-> "unreadable", text |-> "?"]}

StatusBodies == {Json("on"), Json("off"), Json(""), [kind |-> "text", text |-> "denied"]}

HealthBodies == {Json("ONLINE"), Json("OFFLINE"), [kind |-> "text", text |-> "denied"]}

InitCommand ==
    /\ now = DayMs
    /\ file = <<>>
    /\ Startup(file)
    /\ log = <<>>
    /\ sources \in DispatchSources
    /\ envToken \in BOOLEAN
    /\ CredentialsAtRest
    /\ launched = {}
    /\ epoch = 1
    /\ edits = 0

NextCommand ==
    \/ \E on \in BOOLEAN, sourceId \in SourceIdInputs : DispatchToggle("d1", on, sourceId)
    \/ \E src \in {"a", "env"} : DispatchCommand("d2", src, "switchLevel", "setLevel")
    \/ \E status \in CommandStatuses, body \in CommandBodies : CommandAnswered(status, body)
    \/ DispatchUnreachable
    \/ \E body \in StatusBodies : StatusAnswered(body)
    \/ \E body \in HealthBodies : HealthAnswered(body)
    \/ DispatchCollect

SpecCommand == InitCommand /\ [][NextCommand]_vars

\* scheduled execution in which everything can fail: the store read and write
\* of a pass, the credential resolution (no source stored), the command and
\* the state read of an action
InitFail ==
    /\ now = DayMs
    /\ file \in FireFiles
    /\ Startup(file)
    /\ log = <<>>
    /\ sources \in {StoredSources, <<>>}
    /\ envToken = FALSE
    /\ CredentialsAtRest
    /\ launched = {}
    /\ epoch = 1
    /\ edits = 0

NextFail ==
    \/ \E t \in FirstDay : Advance(t)
    \/ \E h \in timers : Tick(h)
    \/ \E p \in 1..MaxPasses : Cardinality(launched) < MaxLaunches /\ EvalDecide(p)
    \/ \E p \in 1..MaxPasses : EvalWrite(p)
    \/ \E p \in 1..MaxPasses : EvalWriteFails(p)
    \/ \E p \in 1..MaxPasses, reset \in BOOLEAN : EvalReadFails(p, reset)
    \/ \E k \in 1..MaxRuns : RunSend(k)
    \/ \E k \in 1..MaxRuns, ok \in BOOLEAN : RunCommandResponse(k, ok)
    \/ \E k \in 1..MaxRuns, ok \in BOOLEAN : RunStatusResponse(k, ok)
    \/ \E k \in 1..MaxRuns : RunSettle(k)

SpecFail == InitFail /\ [][NextFail]_vars

\* the scheduler's filters: a Time routine and an Interval routine, each
\* enabled or disabled, the Time routine for every day, Fridays, Saturdays or
\* the weekend; day 1 of the clock is a Friday, day 2 a Saturday
FilterDays == {<<>>, <<5>>, <<6>>, <<0, 6>>}

Flagged(payload, enabled) == [payload EXCEPT !.enabled = Some(enabled)]

FilterFiles ==
    {<<Created("r1", Flagged(TimePayload(<<"A">>, T0000, days,
                                         <<ToggleAction("a1", "d1", TRUE)>>), e1), DayMs),
       Created("r2", Flagged(IntervalPayload(<<"B">>, 1,
                                             <<ToggleAction("a2", "d2", FALSE)>>), e2), DayMs)>> :
        days \in FilterDays, e1 \in BOOLEAN, e2 \in BOOLEAN}

InitFilter == InitWith(FilterFiles)

NextFilter ==
    \/ \E t \in CoarsePoints : Advance(t)
    \/ \E h \in timers : Tick(h)
    \/ \E p \in 1..MaxPasses : EvalDecide(p)
    \/ \E p \in 1..MaxPasses : EvalWrite(p)
    \/ \E k \in 1..MaxRuns : RunSend(k)
    \/ \E k \in 1..MaxRuns : RunSettle(k)

SpecFilter == InitFilter /\ [][NextFilter]_vars

\* the timer on schedule: the process starts 10 ms before 00:01 and the
\* callback of setInterval runs every routineIntervalMs after that, up to
\* EndAt; a pass's `await readRoutines()` completes at once or ReadLatency
\* later, and in any case before the next tick
ReadLatency == 20
StartAt == DayMs + MinuteMs - 10
EndAt == StartAt + 3 * MinuteMs

T0002 == <<"0", "0", ":", "0", "2">>

\* t is an instant at which the timer is due
OnTick(t) == (t - StartAt) % routineIntervalMs = 0

\* the next instant at which the timer is due
NextTick(t) == t - ((t - StartAt) % routineIntervalMs) + routineIntervalMs

\* the clock reaches the next tick and setInterval's callback calls
\* evaluateRoutines()
TickOnSchedule(h) ==
    /\ h \in timers
    /\ FreePasses # {}
    /\ \A p \in 1..MaxPasses : passes[p].pc # "decide"
    /\ NextTick(now) <= EndAt
    /\ now' = NextTick(now)
    /\ passes' = StartPass(passes, file)
    /\ UNCHANGED <<file, routineRunTracker, timerVars, runs, reqs, log, credVars, histVars>>

\* the read of a pass started at this tick is still in flight ReadLatency later
ReadTakes ==
    /\ OnTick(now)
    /\ \E p \in 1..MaxPasses : passes[p].pc = "decide"
    /\ now' = now + ReadLatency
    /\ UNCHANGED <<file, schedVars, runs, reqs, log, credVars, histVars>>

\* settings.json as POST /api/settings left it: the default, one minute, and
\* ReadLatency less than one minute
SchedulePeriods ==
    {[t |-> "number", v |-> ms] :
        ms \in {DEFAULT_ROUTINE_CHECK_INTERVAL_MS, MinuteMs - ReadLatency, MinuteMs}}

InitOnSchedule ==
    /\ now = StartAt
    /\ file \in {<<TimeRoutine(time, days)>> : time \in {T0001, T0002},
                                               days \in {<<>>, <<5>>, <<6>>}}
    /\ StartupFrom(file, SchedulePeriods)
    /\ log = <<>>
    /\ sources = <<>>
    /\ envToken = FALSE
    /\ CredentialsAtRest
    /\ launched = {}
    /\ epoch = 1
    /\ edits = 0

NextOnSchedule ==
    \/ \E h \in timers : TickOnSchedule(h)
    \/ ReadTakes
    \/ \E p \in 1..MaxPasses : EvalDecide(p)
    \/ \E p \in 1..MaxPasses : EvalWrite(p)
    \/ \E k \in 1..MaxRuns : RunSend(k)
    \/ \E k \in 1..MaxRuns : RunSettle(k)

\* the event loop runs every callback that is ready: the timer's, the
\* continuation of a completed read or write, and the steps of a run
SpecOnSchedule ==
    /\ InitOnSchedule
    /\ [][NextOnSchedule]_vars
    /\ WF_vars(\E h \in timers : TickOnSchedule(h))
    /\ WF_vars(\E p \in 1..MaxPasses : EvalDecide(p))
    /\ WF_vars(\E p \in 1..MaxPasses : EvalWrite(p))
    /\ WF_vars(\E k \in 1..MaxRuns : RunSend(k))
    /\ WF_vars(\E k \in 1..MaxRuns : RunSettle(k))

----------------------------------------------------------------------------
(* Properties of the scheduler. *)

\* the step is the map of pass p (the continuation of its read)
Deciding(p) == passes[p].pc = "decide" /\ passes'[p] # passes[p]

\* the step launches runRoutineActions for routine id
LaunchedNow(id) == \E h \in launched' \ launched : h.id = id

\* the routine is enabled, has a Time trigger, and the trigger's HH:MM and
\* weekday filter match the instant t
TimeMatches(routine, t) ==
    /\ routine.enabled
    /\ routine.trigger.type = "time"
    /\ routine.trigger.time = ToTimeString(t)
    /\ \/ routine.trigger.days = <<>>
       \/ GetDay(t) \in Range(routine.trigger.days)

\* C1: an evaluation pass that finds an enabled Time routine matching the
\* current HH:MM and weekday fires it if and only if no pass has fired it
\* in this slot (date + HH:MM) before: the first pass of a matching slot fires
\* it, a second pass within the same minute does not, and a pass in a later
\* matching slot fires it again.
C1_FiresOncePerMatchingSlot ==
    [][\A p \in 1..MaxPasses :
          Deciding(p) =>
            \A i \in 1..Len(passes[p].data) :
               LET routine == passes[p].data[i]
               IN  TimeMatches(routine, now) =>
                     (LaunchedNow(routine.id) <=>
                        ~\E h \in launched : h.id = routine.id /\ h.slot = SlotKey(now))]_vars

\* the routine was fired in an earlier slot (its stored lastRunAt is of an
\* earlier day) and has been fired again in the current one, and a further
\* pass of the current slot has left it alone
C1_Witness ==
    /\ Len(file) = 1
    /\ file[1].trigger.type = "time"
    /\ file[1].lastRunAt # NoRun
    /\ ToDateString(file[1].lastRunAt) < ToDateString(now)
    /\ \E h \in launched : h.id = file[1].id /\ h.slot = SlotKey(now) /\ h.k = 1
    /\ \A p \in 1..MaxPasses : passes[p].pc = "idle"
    /\ routineRunTracker[file[1].id] = SlotKey(now)

\* C2 as stated: in one process lifetime the scheduler launches a routine at
\* most once per slot, whatever the routine's trigger.
C2_Original_AnyTriggerOncePerSlot ==
    \A h \in launched : h.epoch = epoch => h.k = 1

\* C2, amended: in one process lifetime the Time-trigger branch of the
\* scheduler launches a routine at most once per slot, over every interleaving
\* of ticks, immediate passes, overlapping passes and routine edits.
C2_TimeBranchOncePerSlot ==
    \A h1, h2 \in launched :
        (/\ h1.branch = "time"
         /\ h2.branch = "time"
         /\ h1.id = h2.id
         /\ h1.slot = h2.slot
         /\ h1.epoch = h2.epoch) => h1 = h2

\* a Time routine has been fired in the current slot, was edited, and two
\* passes that read the store overlap: one has fired and not yet written,
\* the other has still to decide
C2_Witness ==
    /\ \E h \in launched : h.branch = "time" /\ h.slot = SlotKey(now)
    /\ edits > 0
    /\ \E p, q \in 1..MaxPasses : passes[p].pc = "write" /\ passes[q].pc = "decide"

\* C3: a Time routine is never fired twice for the same slot, restarts of
\* the process included.
C3_NeverTwicePerSlotAcrossRestarts ==
    \A h1, h2 \in launched :
        (/\ h1.branch = "time"
         /\ h2.branch = "time"
         /\ h1.id = h2.id
         /\ h1.slot = h2.slot) => h1 = h2

\* C4: a pass at time now fires an enabled Interval routine of N minutes if
\* and only if now - lastRunAt >= N * 60000, an unset lastRunAt counting as
\* overdue; lastRunAt is the value the pass read.
C4_IntervalFiresIffElapsed ==
    [][\A p \in 1..MaxPasses :
          Deciding(p) =>
            \A i \in 1..Len(passes[p].data) :
               LET routine == passes[p].data[i]
                   N == routine.trigger.everyMinutes
               IN  (routine.enabled /\ routine.trigger.type = "interval") =>
                     (LaunchedNow(routine.id) <=>
                        \/ routine.lastRunAt = NoRun
                        \/ now - routine.lastRunAt >= N * 60000)]_vars

\* a pass has just fired the routine 1 ms after its interval elapsed: the
\* store still holds lastRunAt = now - N * 60000 - 1
C4_Witness ==
    /\ Len(file) = 1
    /\ file[1].trigger.type = "interval"
    /\ file[1].lastRunAt = now - file[1].trigger.everyMinutes * 60000 - 1
    /\ \E p \in 1..MaxPasses :
          /\ passes[p].pc = "write"
          /\ passes[p].data[1].lastRunAt = now
    /\ \E h \in launched : h.id = file[1].id /\ h.k = 1

----------------------------------------------------------------------------
(* Properties of routine runs and of run-now. *)

Active(run) == run.pc # "idle"

\* C5: runRoutineActions attempts every action whatever happened to the
\* earlier ones: its result list has one entry per attempted action, in action
\* order, ok:true exactly for the actions that succeeded and ok:false with an
\* error for those that failed, and the returned list covers every action.
C5_OneResultPerAction ==
    \A k \in 1..MaxRuns :
        Active(runs[k]) =>
            LET run == runs[k]
            IN  /\ Len(run.results) = Len(run.attempts)
                /\ \A j \in 1..Len(run.results) :
                      /\ run.results[j].actionId = run.actions[j].id
                      /\ run.results[j].ok = (run.attempts[j] = "ok")
                      /\ ~run.results[j].ok => run.results[j].error # ""
                /\ run.pc = "done" => Len(run.results) = Len(run.actions)

\* a run of three actions has returned; action 2 failed, actions 1 and 3 did not
C5_Witness ==
    \E k \in 1..MaxRuns :
        /\ runs[k].pc = "done"
        /\ Len(runs[k].actions) = 3
        /\ Len(runs[k].results) = 3
        /\ runs[k].results[1].ok
        /\ ~runs[k].results[2].ok
        /\ runs[k].results[3].ok

\* C6: within one run the command request of an action is sent only when no
\* remote call of the run is in flight and every earlier action has its
\* result: requests go out in action order, one at a time.
C6_SendsInOrderOneAtATime ==
    [][\A k \in 1..MaxRuns :
          (Active(runs[k]) /\ Active(runs'[k]) /\ runs'[k].sent # runs[k].sent) =>
              /\ runs[k].pc = "next"
              /\ runs'[k].sent = Append(runs[k].sent, Len(runs[k].results) + 1)
              /\ \A j \in 1..Len(runs[k].sent) : runs[k].sent[j] <= Len(runs[k].results)]_vars

\* the command of the third action is in flight after the second action failed
C6_Witness ==
    \E k \in 1..MaxRuns :
        /\ runs[k].pc = "cmd"
        /\ runs[k].sent = <<1, 2, 3>>
        /\ Len(runs[k].results) = 2
        /\ ~runs[k].results[2].ok

\* the routine with this id, as the store holds it
Stored(routines, id) == routines[FindIndex(routines, id)]

\* C9: run-now executes the full action list of an existing routine whatever
\* its trigger, enabled flag, lastRunAt or tracker entry, answers with one
\* result per action and stamps and persists lastRunAt; for an unknown id it
\* answers not-found and executes nothing.
C9_RunNowAlwaysRuns ==
    [][\A q \in 1..MaxReqs :
          /\ (reqs[q].pc = "idle" /\ reqs'[q].pc # "idle" /\ reqs'[q].kind = "run") =>
                IF FindIndex(file, reqs'[q].id) = 0
                THEN /\ reqs'[q].pc = "done"
                     /\ reqs'[q].status = 404
                     /\ runs' = runs
                     /\ file' = file
                ELSE \E k \in 1..MaxRuns :
                        /\ ~Active(runs[k])
                        /\ runs'[k].pc = "next"
                        /\ runs'[k].origin = "now"
                        /\ runs'[k].req = q
                        /\ runs'[k].actions = Stored(file, reqs'[q].id).actions
                        /\ runs'[k].results = <<>>
          /\ (reqs[q].pc = "running" /\ reqs'[q].pc = "done") =>
                LET routine == reqs[q].data[reqs[q].idx]
                IN  /\ reqs'[q].status = 200
                    /\ Len(reqs'[q].results) = Len(routine.actions)
                    /\ \A j \in 1..Len(routine.actions) :
                          reqs'[q].results[j].actionId = routine.actions[j].id
                    /\ FindIndex(file', routine.id) # 0
                    /\ Stored(file', routine.id).lastRunAt = now]_vars

\* run-now of the disabled Interval routine, never run before, has answered
\* with its two results and the store holds the stamp
C9_Witness ==
    \E q \in 1..MaxReqs :
        /\ reqs[q].pc = "done"
        /\ reqs[q].kind = "run"
        /\ reqs[q].status = 200
        /\ Len(reqs[q].results) = 2
        /\ Len(file) = 1
        /\ file[1].id = reqs[q].id
        /\ ~file[1].enabled
        /\ file[1].trigger.type = "interval"
        /\ file[1].lastRunAt = now
        /\ now > DayMs

\* C10: when a run-now request is answered, it is answered with success, and
\* every action of its run that failed is an ok:false entry of the returned
\* list: no action failure fails the request.
C10_ActionFailureNeverFailsRequest ==
    [][\A q \in 1..MaxReqs :
          (reqs[q].pc = "running" /\ reqs'[q].pc = "done") =>
              \A k \in 1..MaxRuns :
                  (Active(runs[k]) /\ runs[k].origin = "now" /\ runs[k].req = q) =>
                      /\ reqs'[q].status = 200
                      /\ Len(reqs'[q].results) = Len(runs[k].attempts)
                      /\ \A j \in 1..Len(runs[k].attempts) :
                            runs[k].attempts[j] # "ok" =>
                                /\ ~reqs'[q].results[j].ok
                                /\ reqs'[q].results[j].error # ""]_vars

\* a run-now whose first action's command was refused has been answered 200
C10_Witness ==
    \E q \in 1..MaxReqs :
        /\ reqs[q].pc = "done"
        /\ reqs[q].kind = "run"
        /\ reqs[q].status = 200
        /\ Len(reqs[q].results) > 0
        /\ ~reqs[q].results[1].ok
        /\ reqs[q].results[1].error = "command"

\* whether the routine is due at t by its stored trigger: the Time trigger
\* matches and the tracker does not hold this slot, or the interval elapsed
DueAt(routine, tracker, t) ==
    \/ TimeMatches(routine, t) /\ tracker[routine.id] # SlotKey(t)
    \/ /\ routine.enabled
       /\ routine.trigger.type = "interval"
       /\ \/ routine.lastRunAt = NoRun
          \/ t - routine.lastRunAt >= routine.trigger.everyMinutes * 60000

DueCount(data, tracker, t) ==
    Cardinality({i \in 1..Len(data) : DueAt(data[i], tracker, t)})

\* C7: no step of an evaluation pass waits for a remote call.  Whatever the
\* runs in flight are doing (a hung call included), a tick can start a pass,
\* a pass that has read can decide and launches every routine that is due, a
\* pass that has fired can persist lastRunAt, and every other run can send
\* its next command.  (A pass launches only into free slots of `runs`.)
C7_PassNeverWaitsForRemoteCalls ==
    /\ FreePasses # {} => \A h \in timers : ENABLED Tick(h)
    /\ \A p \in 1..MaxPasses :
          /\ passes[p].pc = "write" => ENABLED EvalWrite(p)
          /\ (/\ passes[p].pc = "decide"
              /\ DueCount(passes[p].data, routineRunTracker, now) <= Cardinality(FreeRuns)) =>
                ENABLED (/\ EvalDecide(p)
                         /\ \A i \in 1..Len(passes[p].data) :
                               DueAt(passes[p].data[i], routineRunTracker, now) =>
                                   LaunchedNow(passes[p].data[i].id))
    /\ \A k \in 1..MaxRuns : runs[k].pc = "next" => ENABLED RunSend(k)

\* the run of r1, fired in the first minute, hangs; in a later minute a pass
\* has fired r2, persisted its lastRunAt and completed
C7_Witness ==
    /\ \E k \in 1..MaxRuns : runs[k].pc = "hung" /\ runs[k].id = "r1"
    /\ now > DayMs
    /\ \E h \in launched : h.id = "r2" /\ h.slot = SlotKey(now)
    /\ Stored(file, "r2").lastRunAt = now
    /\ \A p \in 1..MaxPasses : passes[p].pc = "idle"

\* the step stamps lastRunAt of routine id in the copy held by pass p
StampedBy(p, id) ==
    /\ Deciding(p)
    /\ \E i \in 1..Len(passes[p].data) :
          /\ passes[p].data[i].id = id
          /\ passes'[p].pc = "write"
          /\ passes'[p].data[i].lastRunAt # passes[p].data[i].lastRunAt

\* the step is the answer to run-now request q
Answered(q) == reqs[q].pc = "running" /\ reqs'[q].pc = "done"

\* C8 as stated: on the scheduled path and on the run-now path lastRunAt is
\* stamped only after every action of the run has been attempted.
C8_Original_StampedAfterAllActions ==
    [][/\ \A p \in 1..MaxPasses, id \in RoutineIds :
             StampedBy(p, id) =>
                 \E k \in 1..MaxRuns :
                     /\ Active(runs'[k])
                     /\ runs'[k].id = id
                     /\ runs'[k].origin = "sched"
                     /\ Len(runs'[k].results) = Len(runs'[k].actions)
       /\ \A q \in 1..MaxReqs :
             (Answered(q) /\ file' # file) =>
                 \E k \in 1..MaxRuns :
                     /\ Active(runs[k])
                     /\ runs[k].origin = "now"
                     /\ runs[k].req = q
                     /\ Len(runs[k].results) = Len(runs[k].actions)]_vars

\* C8, amended: on the run-now path lastRunAt is stamped and the collection
\* rewritten only after every action of the run has been attempted; on the
\* scheduled path lastRunAt is stamped in the step that launches the run,
\* before any of its actions is attempted.
C8_StampedAtLaunchOrAfterRunNow ==
    [][/\ \A p \in 1..MaxPasses, id \in RoutineIds :
             StampedBy(p, id) =>
                 \E k \in 1..MaxRuns :
                     /\ ~Active(runs[k])
                     /\ Active(runs'[k])
                     /\ runs'[k].id = id
                     /\ runs'[k].origin = "sched"
                     /\ runs'[k].results = <<>>
                     /\ runs'[k].sent = <<>>
       /\ \A q \in 1..MaxReqs :
             (Answered(q) /\ file' # file) =>
                 \E k \in 1..MaxRuns :
                     /\ Active(runs[k])
                     /\ runs[k].origin = "now"
                     /\ runs[k].req = q
                     /\ runs[k].pc = "done"
                     /\ Len(runs[k].results) = Len(runs[k].actions)
                     /\ Stored(file', runs[k].id).lastRunAt = now]_vars

\* the pass has written the stamp of the routine it fired while the run it
\* launched has not attempted an action yet
C8_Witness ==
    /\ Len(file) = 1
    /\ file[1].lastRunAt # NoRun
    /\ \A p \in 1..MaxPasses : passes[p].pc = "idle"
    /\ \E k \in 1..MaxRuns :
          /\ Active(runs[k])
          /\ runs[k].origin = "sched"
          /\ runs[k].id = file[1].id
          /\ runs[k].pc = "next"
          /\ runs[k].results = <<>>
          /\ runs[k].sent = <<>>

----------------------------------------------------------------------------
(* Properties of credential resolution. *)

\* the step is a dispatch by run k: the credential is resolved for the action
\* at idx, and the command request is sent or the action fails
RunDispatches(k) ==
    /\ Active(runs[k])
    /\ runs[k].pc = "next"
    /\ runs'[k] # runs[k]

\* the sourceId the dispatch of run k is made with
RunSourceId(k) == runs[k].actions[runs[k].idx].sourceId

\* the step is a dispatch by the device route with this sourceId
RouteDispatches(q, sourceId) ==
    /\ reqs[q].pc = "idle"
    /\ reqs'[q].pc # "idle"
    /\ reqs'[q].kind = "toggle"
    /\ reqs'[q].sourceId = sourceId

\* the command request of the dispatch was sent with the credential of src
RunSentWith(k, src) ==
    /\ runs'[k].pc = "cmd"
    /\ runs'[k].src = src
    /\ runs'[k].sent = Append(runs[k].sent, runs[k].idx)

\* src is the first enabled stored source in store order
FirstEnabled(src) ==
    \E i \in 1..Len(sources) :
        /\ sources[i].enabled
        /\ sources[i].id = src
        /\ \A j \in 1..(i - 1) : ~sources[j].enabled

SomeEnabled == \E i \in 1..Len(sources) : sources[i].enabled

\* C11 as stated: a dispatch without sourceId, by a routine action of either
\* type or by the device route, is sent with the credential of the first
\* enabled stored source, skipping the disabled ones.
C11_Original_FirstEnabledSource ==
    [][/\ \A k \in 1..MaxRuns :
             (RunDispatches(k) /\ ~Has(RunSourceId(k)) /\ SomeEnabled) =>
                 \E i \in 1..Len(sources) :
                     FirstEnabled(sources[i].id) /\ RunSentWith(k, sources[i].id)
       /\ \A q \in 1..MaxReqs :
             (RouteDispatches(q, Absent) /\ SomeEnabled) =>
                 reqs'[q].pc = "cmd" /\ FirstEnabled(reqs'[q].src)]_vars

\* C11 where no environment token is configured: the same statement holds.
C11_FirstEnabledSourceWithoutEnv ==
    [][~envToken =>
        /\ \A k \in 1..MaxRuns :
              (RunDispatches(k) /\ ~Has(RunSourceId(k)) /\ SomeEnabled) =>
                  \E i \in 1..Len(sources) :
                      FirstEnabled(sources[i].id) /\ RunSentWith(k, sources[i].id)
        /\ \A q \in 1..MaxReqs :
              (RouteDispatches(q, Absent) /\ SomeEnabled) =>
                  reqs'[q].pc = "cmd" /\ FirstEnabled(reqs'[q].src)]_vars

\* with sources [a disabled, b enabled] and no environment token, the command
\* of the routine's first action (no sourceId) is in flight with b's credential
C11_Witness ==
    /\ sources = StoredSources
    /\ ~envToken
    /\ \E k \in 1..MaxRuns :
          /\ Active(runs[k])
          /\ runs[k].pc = "cmd"
          /\ runs[k].idx = 1
          /\ ~Has(runs[k].actions[1].sourceId)
          /\ runs[k].src = "b"

\* s names a stored source
IsStored(s) == \E i \in 1..Len(sources) : sources[i].id = s

\* C12 as stated: a dispatch with the sourceId of a stored source is sent
\* with exactly that source's credential, whatever its enabled flag.
C12_Original_ExplicitSourceUsed ==
    [][/\ \A k \in 1..MaxRuns :
             (RunDispatches(k) /\ Has(RunSourceId(k)) /\ IsStored(Val(RunSourceId(k)))) =>
                 RunSentWith(k, Val(RunSourceId(k)))
       /\ \A q \in 1..MaxReqs, s \in {"a", "b"} :
             (RouteDispatches(q, Some(s)) /\ IsStored(s)) =>
                 reqs'[q].pc = "cmd" /\ reqs'[q].src = s]_vars

\* the error of a dispatch that found no credential
NoCredential == "SMARTTHINGS_TOKEN fehlt"

\* C13: with no enabled stored source and no environment token, every
\* dispatch fails with the no-credential error and sends no command request:
\* in a run the action gets an ok:false result with that error and the run
\* goes on, and the device route answers with that error.
C13_NoCredentialFails ==
    [][(~envToken /\ ~SomeEnabled) =>
        /\ \A k \in 1..MaxRuns :
              RunDispatches(k) =>
                  /\ runs'[k].pc # "cmd"
                  /\ runs'[k].sent = runs[k].sent
                  /\ runs'[k].results =
                        Append(runs[k].results,
                               [ok |-> FALSE, actionId |-> runs[k].actions[runs[k].idx].id,
                                error |-> NoCredential])
        /\ \A q \in 1..MaxReqs, sourceId \in SourceIdInputs :
              RouteDispatches(q, sourceId) =>
                  /\ reqs'[q].pc = "done"
                  /\ reqs'[q].status = 500
                  /\ reqs'[q].error = NoCredential
                  /\ reqs'[q].src = ""]_vars

\* the only stored source is disabled and there is no environment token: a
\* run has finished with four ok:false no-credential results and no request
C13_Witness ==
    /\ ~envToken
    /\ sources = <<[id |-> "a", enabled |-> FALSE]>>
    /\ \E k \in 1..MaxRuns :
          /\ Active(runs[k])
          /\ runs[k].pc = "done"
          /\ runs[k].sent = <<>>
          /\ Len(runs[k].results) = 4
          /\ \A j \in 1..4 : ~runs[k].results[j].ok /\ runs[k].results[j].error = NoCredential

----------------------------------------------------------------------------
(* Properties of routine validation. *)

\* the step is the handling of a create request, or of an update request for
\* a stored routine, up to its validation error or its pending write
Creates(q) == reqs[q].pc = "idle" /\ reqs'[q].pc # "idle" /\ reqs'[q].kind = "post"

Updates(q) ==
    /\ reqs[q].pc = "idle"
    /\ reqs'[q].pc # "idle"
    /\ reqs'[q].kind = "patch"
    /\ FindIndex(file, reqs'[q].id) # 0

Rejected(q) == reqs'[q].pc = "done" /\ reqs'[q].status = 400

Accepted(q) == reqs'[q].pc = "write"

\* the body of the request, and the routine the handler is about to write
Body(q) == reqs'[q].payload

Built(q) == Stored(reqs'[q].data, reqs'[q].id)

\* the body has this kind of trigger
HasTrigger(q, type) == Has(Body(q).trigger) /\ Val(Body(q).trigger).type = type

\* the name and the actions of the body are valid where present, and present
\* in a create
RestIsValid(q) ==
    /\ Has(Body(q).name) => Trim(Val(Body(q).name)) # <<>>
    /\ Has(Body(q).actions) => Body(q).actions = ValidBody.actions
    /\ Creates(q) => Has(Body(q).actions)

\* C14 as stated: a stored interval trigger has everyMinutes within [1,1440],
\* and a create whose everyMinutes is 0, NaN or absent is rejected with a
\* validation error.
C14_Original_ZeroEveryMinutesRejected ==
    [][\A q \in 1..MaxReqs :
          ((Creates(q) \/ Updates(q)) /\ HasTrigger(q, "interval")) =>
              /\ Accepted(q) => Built(q).trigger.everyMinutes \in MinEveryMinutes..MaxEveryMinutes
              /\ (Creates(q) /\ NumberOrZero(Val(Body(q).trigger).everyMinutes) = 0) =>
                    Rejected(q)]_vars

\* the place of a digit among the decimal digits
FindDigit(c) == CHOOSE i \in 1..Len(Digit) : Digit[i] = c

\* the number the characters c1 c2 write, -1 when one is not a decimal digit
TwoDigits(c1, c2) ==
    IF Includes(Digit, c1) /\ Includes(Digit, c2)
    THEN 10 * (FindDigit(c1) - 1) + (FindDigit(c2) - 1)
    ELSE -1

\* s is HH:MM with HH in 00..23 and MM in 00..59
IsHHMM(s) ==
    /\ Len(s) = 5
    /\ s[3] = ":"
    /\ TwoDigits(s[1], s[2]) \in 0..23
    /\ TwoDigits(s[4], s[5]) \in 0..59

\* the time string of the body ("" when absent)
TimeOf(q) ==
    IF Has(Val(Body(q).trigger).time) THEN Val(Val(Body(q).trigger).time) ELSE <<>>

\* C15 as stated: a create or update with a Time trigger is accepted only if
\* its time string is exactly HH:MM, HH in 00..23 and MM in 00..59, and is
\* rejected with a validation error for every other string.
C15_Original_ExactlyHHMM ==
    [][\A q \in 1..MaxReqs :
          ((Creates(q) \/ Updates(q)) /\ HasTrigger(q, "time")) =>
              /\ ~IsHHMM(TimeOf(q)) => Rejected(q)
              /\ (IsHHMM(TimeOf(q)) /\ RestIsValid(q)) => Accepted(q)]_vars

\* C15, amended: the validator accepts exactly the strings that are HH:MM
\* (HH in 00..23, MM in 00..59, two digits each) once surrounding whitespace
\* is trimmed, and the trimmed string is what is stored; a create or update
\* with any other time string returns a validation error.
C15_HHMMAfterTrim ==
    [][\A q \in 1..MaxReqs :
          ((Creates(q) \/ Updates(q)) /\ HasTrigger(q, "time")) =>
              /\ ~IsHHMM(Trim(TimeOf(q))) => Rejected(q)
              /\ (IsHHMM(Trim(TimeOf(q))) /\ RestIsValid(q)) =>
                    /\ Accepted(q)
                    /\ Built(q).trigger.type = "time"
                    /\ Built(q).trigger.time = Trim(TimeOf(q))]_vars

\* the stored routine r1 has been given the time 09:30 by an update whose
\* time string had a leading blank, and a create with 24:00 was refused
C15_Witness ==
    /\ FindIndex(file, "r1") # 0
    /\ Stored(file, "r1").trigger.time = <<"0", "9", ":", "3", "0">>
    /\ \E q \in 1..MaxReqs :
          /\ reqs[q].pc = "done"
          /\ reqs[q].kind = "post"
          /\ reqs[q].status = 400
          /\ Has(reqs[q].payload.trigger)
          /\ Val(reqs[q].payload.trigger).time = Some(<<"2", "4", ":", "0", "0">>)

\* C16 as stated: a create without a name, or with a name that is empty after
\* trimming, is rejected with a validation error, and every stored routine
\* has a name of 1 to 120 characters.
C16_Original_NameRequired ==
    [][/\ \A q \in 1..MaxReqs :
             (Creates(q) /\ (~Has(Body(q).name) \/ Trim(Val(Body(q).name)) = <<>>)) =>
                 Rejected(q)
       /\ \A i \in 1..Len(file') : Len(file'[i].name) \in 1..MaxNameLen]_vars

\* the raw action passes the checks of normalizeActions
Survives(action) ==
    /\ Has(action.deviceId)
    /\ Val(action.deviceId) # ""
    /\ \/ /\ action.type = "device_toggle"
          /\ action.desiredState.t = "boolean" \/ action.on.t = "boolean"
       \/ /\ action.type = "device_command"
          /\ Trim(action.capability) # <<>>
          /\ Trim(action.command) # <<>>

\* the stored action is the normal form of the raw action
NormalFormOf(stored, action) ==
    /\ stored.deviceId = Val(action.deviceId)
    /\ Has(action.id) => stored.id = Val(action.id)
    /\ stored.type = action.type
    /\ action.type = "device_toggle" =>
          stored.desiredState = IF action.desiredState.t = "boolean"
                                THEN action.desiredState.v ELSE action.on.v
    /\ action.type = "device_command" =>
          /\ stored.capability = Trim(action.capability)
          /\ stored.command = Trim(action.command)

\* C17: of the action list supplied to a create or update, the actions without
\* deviceId, the toggles without a boolean desired state and the commands
\* without non-empty capability and command are dropped; the stored list is
\* the survivors in their order, cut to the first 20; a request none of whose
\* actions survives is rejected with a validation error.
C17_ActionsNormalised ==
    [][\A q \in 1..MaxReqs :
          ((Creates(q) \/ Updates(q)) /\ Has(Body(q).actions)) =>
              LET survivors == SelectSeq(Val(Body(q).actions), Survives)
                  kept == Min(Len(survivors), MAX_ACTIONS_PER_ROUTINE)
              IN  /\ Len(survivors) = 0 => Rejected(q)
                  /\ (Len(survivors) > 0 /\ Body(q).name = ValidBody.name
                        /\ Body(q).trigger = ValidBody.trigger) => Accepted(q)
                  /\ Accepted(q) =>
                        /\ Len(Built(q).actions) = kept
                        /\ \A j \in 1..kept : NormalFormOf(Built(q).actions[j], survivors[j])]_vars

\* a routine was created from the 22 supplied actions, the second of which
\* has no deviceId: it is stored with 20 actions, the first, the third and on
C17_Witness ==
    /\ FindIndex(file, "r2") # 0
    /\ Len(Stored(file, "r2").actions) = MAX_ACTIONS_PER_ROUTINE
    /\ Stored(file, "r2").actions[2].id = "n3"
    /\ Stored(file, "r2").actions[MAX_ACTIONS_PER_ROUTINE].id = "n21"

\* C19: a create or update that is answered with a validation error changes
\* nothing in the persisted collection: the handler answers in the step that
\* validates, without a write, and a request that has a write pending is
\* never answered with a validation error.
C19_RejectedLeavesStoreUnchanged ==
    [][\A q \in 1..MaxReqs :
          /\ ((Creates(q) \/ Updates(q)) /\ Rejected(q)) =>
                file' = file
          /\ (reqs[q].pc = "write" /\ reqs'[q] # reqs[q]) =>
                reqs'[q].pc = "done" /\ reqs'[q].status = 200]_vars

\* an update of r1 with a blank name has been refused and the store holds
\* what it held at the start
C19_Witness ==
    /\ edits = 1
    /\ file \in CreateFiles
    /\ \E q \in 1..MaxReqs :
          /\ reqs[q].pc = "done"
          /\ reqs[q].kind = "patch"
          /\ reqs[q].id = "r1"
          /\ reqs[q].status = 400
          /\ reqs[q].payload.name = Some(<<" ", " ">>)

\* C20: when the write of an update completes, the stored routine differs
\* from the one the handler read only in the top-level fields present in the
\* body and in updatedAt, which is the time of the request: id, createdAt and
\* lastRunAt and every omitted field are as read, enabled is the supplied
\* value, and every other routine of the collection is as read.
C20_UpdateMergesSuppliedFields ==
    [][\A q \in 1..MaxReqs :
          (reqs[q].pc = "write" /\ reqs[q].kind = "patch" /\ reqs'[q].pc = "done") =>
              LET prior == reqs[q].prior
                  idx == FindIndex(prior, reqs[q].id)
                  body == reqs[q].payload
                  old == prior[idx]
                  new == file'[idx]
              IN  /\ reqs'[q].status = 200
                  /\ Len(file') = Len(prior)
                  /\ \A j \in 1..Len(prior) : j # idx => file'[j] = prior[j]
                  /\ new.id = old.id
                  /\ new.createdAt = old.createdAt
                  /\ new.lastRunAt = old.lastRunAt
                  /\ new.updatedAt = reqs[q].at
                  /\ ~Has(body.name) => new.name = old.name
                  /\ ~Has(body.enabled) => new.enabled = old.enabled
                  /\ Has(body.enabled) => new.enabled = Val(body.enabled)
                  /\ ~Has(body.trigger) => new.trigger = old.trigger
                  /\ ~Has(body.actions) => new.actions = old.actions
                  /\ Has(body.name) => new.name = Slice(Trim(Val(body.name)), MaxNameLen)]_vars

\* r1 has been disabled by an update that supplied only `enabled`, a second
\* after the process started: its trigger, actions, name, createdAt and
\* lastRunAt are the stored ones and updatedAt is the time of the request
C20_Witness ==
    /\ FindIndex(file, "r1") # 0
    /\ LET r == Stored(file, "r1")
       IN  /\ ~r.enabled
           /\ r.updatedAt = DayMs + 1000
           /\ r.lastRunAt = DayMs - MinuteMs
           /\ r.createdAt = DayMs - HourMs
           /\ r.trigger.time = T0001
           /\ r.name = <<"A">>
    /\ \E q \in 1..MaxReqs :
          /\ reqs[q].pc = "done"
          /\ reqs[q].kind = "patch"
          /\ reqs[q].status = 200
          /\ reqs[q].payload = [EmptyBody EXCEPT !.enabled = Some(FALSE)]

\* the stored action is a toggle with a boolean desired state or a command
\* with capability and command, and has a deviceId
ValidAction(action) ==
    /\ action.deviceId # ""
    /\ \/ action.type = "device_toggle" /\ action.desiredState \in BOOLEAN
       \/ /\ action.type = "device_command"
          /\ Trim(action.capability) # <<>>
          /\ Trim(action.command) # <<>>

\* the stored routine has one valid trigger and 1 to 20 valid actions
ValidRoutine(routine) ==
    /\ \/ /\ routine.trigger.type = "time"
          /\ IsHHMM(routine.trigger.time)
          /\ \A i \in 1..Len(routine.trigger.days) : routine.trigger.days[i] \in 0..6
          /\ routine.trigger.everyMinutes = 0
       \/ /\ routine.trigger.type = "interval"
          /\ routine.trigger.everyMinutes \in MinEveryMinutes..MaxEveryMinutes
          /\ routine.trigger.time = <<>>
          /\ routine.trigger.days = <<>>
    /\ Len(routine.actions) \in 1..MAX_ACTIONS_PER_ROUTINE
    /\ \A j \in 1..Len(routine.actions) : ValidAction(routine.actions[j])

\* C18: whatever creates, updates, deletes, run-now requests and scheduler
\* passes have happened, every routine of the persisted collection has exactly
\* one trigger, a Time trigger with a valid HH:MM and weekdays within 0..6 or
\* an Interval trigger with everyMinutes in [1,1440], and between 1 and 20
\* valid actions.
C18_StoredRoutinesValid ==
    \A i \in 1..Len(file) : ValidRoutine(file[i])

\* the store holds two routines: one created with everyMinutes 2000, stored
\* as 1440, and fired by a pass, and the first one, updated to two actions
C18_Witness ==
    /\ Len(file) = 2
    /\ \E i \in 1..2 :
          /\ file[i].trigger.everyMinutes = MaxEveryMinutes
          /\ file[i].lastRunAt # NoRun
    /\ \E i \in 1..2 : Len(file[i].actions) = 2
    /\ edits = 1

----------------------------------------------------------------------------
(* Properties of update and delete by id. *)

\* the step is the handling of an update or delete request for this id, up
\* to its response or its pending write
Handles(q, kind) == reqs[q].pc = "idle" /\ reqs'[q].pc # "idle" /\ reqs'[q].kind = kind

\* C21: an update or a delete of an id that is not in the collection is
\* answered not-found in the step that reads the collection, with no write
\* pending and the collection unchanged; when the write of a delete of a stored
\* id completes, the collection is the one the handler read without that
\* routine: one routine fewer, none with that id, the others as read and in
\* their order.
C21_NotFoundOrRemovesExactlyOne ==
    [][\A q \in 1..MaxReqs :
          /\ ((Handles(q, "patch") \/ Handles(q, "delete")) /\ FindIndex(file, reqs'[q].id) = 0) =>
                /\ reqs'[q].pc = "done"
                /\ reqs'[q].status = 404
                /\ file' = file
          /\ (Handles(q, "delete") /\ FindIndex(file, reqs'[q].id) # 0) =>
                reqs'[q].pc = "write"
          /\ (reqs[q].pc = "write" /\ reqs[q].kind = "delete" /\ reqs'[q] # reqs[q]) =>
                LET prior == reqs[q].prior
                    idx == FindIndex(prior, reqs[q].id)
                IN  /\ reqs'[q].pc = "done"
                    /\ reqs'[q].status = 200
                    /\ Len(file') = Len(prior) - 1
                    /\ FindIndex(file', reqs[q].id) = 0
                    /\ \A j \in 1..Len(file') :
                          file'[j] = IF j < idx THEN prior[j] ELSE prior[j + 1]]_vars

\* the delete of r2 has been answered with success and the store holds the
\* other routine, r1, created before it
C21_Witness ==
    /\ Len(file) = 1
    /\ file[1].id = "r1"
    /\ \E q \in 1..MaxReqs :
          /\ reqs[q].pc = "done"
          /\ reqs[q].kind = "delete"
          /\ reqs[q].id = "r2"
          /\ reqs[q].status = 200

----------------------------------------------------------------------------
(* Properties of the tick interval. *)

\* C22 as stated: in every reachable state the active tick interval lies
\* within [5000, 300000] ms, after startup from the persisted settings and
\* after every set-interval request.
C22_Original_IntervalWithinBounds ==
    routineIntervalMs \in MinIntervalMs..MaxIntervalMs

\* the step is a set-interval request: the process is the same and the
\* persisted value or the active period changes
SetsInterval == epoch' = epoch /\ (settings' # settings \/ routineIntervalMs' # routineIntervalMs)

\* C22, the part that holds: after every set-interval request the active
\* interval is the persisted one and lies within [5000, 300000] ms; the active
\* interval is never below 5000 ms; and a process started from a settings
\* file whose value is missing, not a number, 0 or below 5000 runs with the
\* default 30000 ms.
C22_SetIntervalWithinBounds ==
    [][/\ SetsInterval =>
             /\ routineIntervalMs' \in MinIntervalMs..MaxIntervalMs
             /\ settings' = [t |-> "number", v |-> routineIntervalMs']
       /\ routineIntervalMs' >= MinIntervalMs
       /\ (epoch' # epoch /\ (settings.t # "number" \/ settings.v < MinIntervalMs)) =>
             routineIntervalMs' = DEFAULT_ROUTINE_CHECK_INTERVAL_MS]_vars

\* a process restarted on a settings file without a numeric value runs with
\* the default, and one whose interval was set to 600000 runs with 300000
C22_Witness ==
    \/ /\ epoch = 2
       /\ settings.t = "string"
       /\ routineIntervalMs = DEFAULT_ROUTINE_CHECK_INTERVAL_MS
    \/ /\ settings = [t |-> "number", v |-> MaxIntervalMs]
       /\ routineIntervalMs = MaxIntervalMs
       /\ epoch = 2

C23_ReconfigurationStartsPass ==
    [][routineIntervalMs' # routineIntervalMs =>
          /\ \E p \in 1..MaxPasses : passes[p].pc = "idle" /\ passes'[p].pc # "idle"
          /\ timers' = {routineIntervalHandle'}]_vars

----------------------------------------------------------------------------
(* Properties of the activity log. *)

\* the step ends the action at idx of run k
EndsAction(k) ==
    /\ Active(runs[k])
    /\ runs[k].pc \in {"next", "cmd", "status"}
    /\ Active(runs'[k])
    /\ Len(runs'[k].results) = Len(runs[k].results) + 1

\* the entry the claim describes for an action of a routine
Described(name, action) ==
    [device |-> IF Has(action.deviceName) THEN Val(action.deviceName)
                ELSE IF name # <<>> THEN name
                ELSE <<action.deviceId>>,
     action |-> IF action.type = "device_toggle"
                THEN (IF action.desiredState THEN <<"on">> ELSE <<"off">>)
                ELSE action.capability \o <<":">> \o action.command]

\* C24 as stated: the log gains the described entry when an action ends whose
\* command request was answered with success, and only then.
C24_Original_EntryPerIssuedCommand ==
    [][/\ \A k \in 1..MaxRuns :
             (EndsAction(k) /\ runs[k].pc = "status") =>
                 log' = AppendLog(log, Described(runs[k].name, runs[k].actions[runs[k].idx]))
       /\ (\A k \in 1..MaxRuns : ~(EndsAction(k) /\ runs[k].pc = "status")) => log' = log]_vars

\* C24, the part that holds: the log gains the described entry when an action
\* ends with an ok result (its command was answered with success and the
\* device state was read), and in no other step.
C24_EntryPerOkResult ==
    [][/\ \A k \in 1..MaxRuns :
             (EndsAction(k) /\ runs'[k].results[Len(runs'[k].results)].ok) =>
                 log' = AppendLog(log, Described(runs[k].name, runs[k].actions[runs[k].idx]))
       /\ (\A k \in 1..MaxRuns :
              ~(EndsAction(k) /\ runs'[k].results[Len(runs'[k].results)].ok)) => log' = log]_vars

\* the run of the routine stored without a name has ended its three actions,
\* the first two failed and the last, a toggle without device name, succeeded:
\* the log holds the entry of the last, labelled with the device id
C24_Witness ==
    /\ log = <<[device |-> <<"d3">>, action |-> <<"off">>]>>
    /\ \E k \in 1..MaxRuns :
          /\ Active(runs[k])
          /\ runs[k].pc = "done"
          /\ runs[k].attempts = <<"command-failed", "status-failed", "ok">>

----------------------------------------------------------------------------
(* Properties of the vault. *)

\* the step opens the blob
Opens == vault.pc = "sealed" /\ vault'.pc = "opened"

\* the secret as a UTF-8 round trip returns it: a surrogate without partner
\* comes back as U+FFFD
AsWritten(plain) == [i \in 1..Len(plain) |-> IF IsSurrogate(plain[i]) THEN 65533 ELSE plain[i]]

\* C29 as stated: the unchanged blob opened under the sealing key gives the
\* secret, for every secret and key; under another key, or after a change of
\* any bit, opening fails.
C29_Original_RoundTripAndAnyBit ==
    [][Opens =>
          /\ (vault.change = "none" /\ vault'.with = vault.key) => vault'.out = Plain(vault.plain)
          /\ (vault.change = "none" /\ vault'.with # vault.key) => ~vault'.out.ok
          /\ vault.change = "bit" => ~vault'.out.ok]_vars

\* C29, amended: the unchanged blob opened under the sealing key gives the
\* secret when the secret is well-formed Unicode (a surrogate without partner
\* comes back as U+FFFD); under another key opening fails; after a change of
\* a bit that changes the bytes the blob encodes (nonce, tag or ciphertext)
\* opening fails; a change of a trailing bit of the base64 text that encodes
\* no byte leaves the outcome as it was.
C29_RoundTripAndEncodedBits ==
    [][Opens =>
          /\ (vault.change = "none" /\ vault'.with = vault.key) =>
                vault'.out = Plain(AsWritten(vault.plain))
          /\ (vault.change \in {"none", "bit"} /\ vault'.with # vault.key) => ~vault'.out.ok
          /\ (vault.change = "bit" /\ FromBase64(vault.blob) # FromBase64(vault.sealed)) =>
                ~vault'.out.ok
          /\ (vault.change = "bit" /\ FromBase64(vault.blob) = FromBase64(vault.sealed)
                /\ vault'.with = vault.key) =>
                vault'.out = Plain(AsWritten(vault.plain))]_vars

\* the secret "ab" came back from its blob under the sealing key
C29_Witness ==
    /\ vault.pc = "opened"
    /\ vault.change = "none"
    /\ vault.plain = <<97, 98>>
    /\ vault.with = vault.key
    /\ vault.out = Plain(<<97, 98>>)

\* C30 as stated: opening a malformed blob (empty, or cut to fewer bytes
\* than the sealed blob had, among them fewer than nonce plus tag) fails and
\* returns no plaintext.
C30_Original_MalformedBlobFails ==
    [][(Opens /\ vault.change = "cut") => ~vault'.out.ok]_vars

\* C30, the part that holds: a cut blob of 1 to 15 bytes, or one that keeps a
\* part of the ciphertext, fails to open; no cut blob opens to anything but
\* the empty string.
C30_CutBlobGivesNoSecret ==
    [][(Opens /\ vault.change = "cut") =>
          LET n == Len(FromBase64(vault.blob))
          IN  /\ (n \in 1..(IV_LEN + 3) \/ n > IV_LEN + TAG_LEN) => ~vault'.out.ok
              /\ vault'.out.ok => vault'.out.plain = <<>>]_vars

\* the nonce alone, cut from the blob of "ab", was refused
C30_Witness ==
    /\ vault.pc = "opened"
    /\ vault.change = "cut"
    /\ vault.plain = <<97, 98>>
    /\ Len(FromBase64(vault.blob)) = IV_LEN
    /\ ~vault.out.ok

----------------------------------------------------------------------------
(* The credential store.                                                   *)

\* the step in which the write of request u completes
Writes(u) == upserts[u].pc = "write" /\ upserts'[u].pc = "list"

UniqueIds(entries) ==
    \A i, j \in 1..Len(entries) : entries[i].id = entries[j].id => i = j

OthersKept(before, after, idx) ==
    /\ Len(after) = Len(before)
    /\ \A i \in 1..Len(before) : i # idx => after[i] = before[i]

TokenIn(entry) == decryptSecret(entry.token, KeyOnFile)

\* C25 as stated, against the file as it is when the write lands: the update
\* of an id on file keeps the number of entries, the uniqueness of ids and
\* every other entry, keeps each of label, token and enabled that the request
\* did not supply, and does not move updatedAt backwards.
C25_Original_OnlySuppliedFieldsReplaced ==
    [][\A u \in 1..MaxUpserts :
          (Writes(u) /\ upserts[u].kind = "patch"
                /\ FindIndex(integrations, upserts[u].id) # 0) =>
              LET idx == FindIndex(integrations, upserts[u].id)
                  body == upserts[u].body
              IN  /\ OthersKept(integrations, integrations', idx)
                  /\ UniqueIds(integrations')
                  /\ integrations'[idx].id = upserts[u].id
                  /\ body.label = <<>> => integrations'[idx].label = integrations[idx].label
                  /\ body.token = <<>> => TokenIn(integrations'[idx]) = TokenIn(integrations[idx])
                  /\ ~Has(body.enabled) =>
                        integrations'[idx].enabled = integrations[idx].enabled
                  /\ integrations'[idx].updatedAt >= integrations[idx].updatedAt]_vars

\* C25, the part that holds: against the collection saveSmartThingsEntry read,
\* the written collection has the same length and unique ids, every other
\* entry as read, the supplied fields set from the request (token trimmed and
\* sealed, label trimmed, a blank label read as "SmartThings"), the unsupplied
\* ones set to what the handler's enumeration returned, which are the values
\* read when no write landed in between, and updatedAt the time of the save.
C25_UpsertAgainstWhatItRead ==
    [][\A u \in 1..MaxUpserts :
          (Writes(u) /\ upserts[u].kind = "patch") =>
              LET prior == upserts[u].prior
                  idx == FindIndex(prior, upserts[u].id)
                  body == upserts[u].body
                  match == upserts[u].match
                  new == integrations'[idx]
              IN  /\ idx # 0
                  /\ OthersKept(prior, integrations', idx)
                  /\ UniqueIds(integrations')
                  /\ new.id = upserts[u].id
                  /\ new.label = IF body.label = <<>> THEN match.label
                                 ELSE IF TrimUnits(body.label) = <<>> THEN DefaultLabel
                                 ELSE TrimUnits(body.label)
                  /\ TokenIn(new) = Plain(IF body.token = <<>> THEN match.token
                                          ELSE TrimUnits(body.token))
                  /\ new.enabled = IF Has(body.enabled) THEN Val(body.enabled)
                                   ELSE match.enabled
                  /\ new.updatedAt = upserts[u].at
                  /\ new.updatedAt >= prior[idx].updatedAt
                  /\ upserts[u].seen = prior =>
                        /\ body.label = <<>> => new.label = prior[idx].label
                        /\ body.token = <<>> => TokenIn(new) = TokenIn(prior[idx])
                        /\ ~Has(body.enabled) => new.enabled = prior[idx].enabled]_vars

\* an update that supplied only enabled: false has been written a minute
\* after the file was saved: entry a is disabled with its label and token,
\* entry b is as it was
C25_Witness ==
    \E u \in 1..MaxUpserts :
        /\ upserts[u].pc = "list"
        /\ upserts[u].kind = "patch"
        /\ upserts[u].body = PatchBody(<<>>, <<>>, Some(FALSE))
        /\ integrations = upserts[u].data
        /\ Len(integrations) = 2
        /\ integrations[1] = [StoreOf(<<[id |-> "a", enabled |-> FALSE]>>)[1] EXCEPT
                                 !.token = integrations[1].token,
                                 !.updatedAt = DayMs + MinuteMs]
        /\ TokenIn(integrations[1]) = Plain(TokenOf("a"))
        /\ integrations[2] = StoreOf(<<[id |-> "a", enabled |-> TRUE],
                                       [id |-> "b", enabled |-> FALSE]>>)[2]

\* the create of request u has been answered with success
Created200(u) ==
    upserts[u].pc = "done" /\ upserts[u].kind = "post" /\ upserts[u].status = 200

OnFile(id) == FindIndex(integrations, id) # 0

\* C26 as stated: once a create has been answered with success, an entry with
\* its id is in the credential store in every later state, whatever requests
\* run concurrently with it.
C26_Original_CreatedEntryStays ==
    \A u \in 1..MaxUpserts : Created200(u) => OnFile(upserts[u].id)

\* C26, the part that holds: a write keeps an entry for every id of the
\* collection its save read, so no entry leaves the store through a save
\* that read the file as it is when its write lands.
C26_SaveKeepsWhatItRead ==
    [][\A u \in 1..MaxUpserts :
          Writes(u) =>
              /\ \A i \in 1..Len(upserts[u].prior) :
                     FindIndex(integrations', upserts[u].prior[i].id) # 0
              /\ upserts[u].prior = integrations =>
                     \A i \in 1..Len(integrations) :
                        FindIndex(integrations', integrations[i].id) # 0]_vars

\* two creates, one after the other, have been answered on a file that held
\* entry a: all three entries are on file
C26_Witness ==
    /\ \A u \in 1..MaxUpserts : Created200(u) /\ OnFile(upserts[u].id)
    /\ upserts[1].id # upserts[2].id
    /\ OnFile("a")
    /\ Len(integrations) = 3

\* base64 text of at least a nonce and a tag
IsBlob(text) ==
    /\ Len(text) % 4 = 0
    /\ Len(text) >= 4 * ((IV_LEN + TAG_LEN + 2) \div 3)
    /\ \A i \in 1..Len(text) : text[i] \in 0..Pad

NonceOf(blob) == Subarray(FromBase64(blob), 0, IV_LEN)
CipherOf(blob) == Subarray(FromBase64(blob), IV_LEN + TAG_LEN, Len(FromBase64(blob)))

\* the text is what the vault makes of some token under the key on file, and
\* neither the text nor the bytes after nonce and tag are that token
SealedToken(text) ==
    /\ IsBlob(text)
    /\ decryptSecret(text, KeyOnFile).ok
    /\ LET token == decryptSecret(text, KeyOnFile).plain
       IN  /\ text = encryptSecret(token, KeyOnFile, NonceOf(text))
           /\ text # token
           /\ token # <<>> => CipherOf(text) # Utf8Encode(token)

\* C27: in every state the token field of every entry of integrations.json is
\* the vault's ciphertext of a token under the key on file and not the token;
\* the entry a save writes holds the ciphertext of the token of its request
\* under a nonce drawn for it, and every other entry's ciphertext as read.
C27_TokensSealedOnFile ==
    \A i \in 1..Len(integrations) : SealedToken(integrations[i].token)

\* C27 at the write: the saved entry's token is the ciphertext of the request's
\* token, and the other ciphertexts are written back as read
C27_SaveSealsItsToken ==
    [][\A u \in 1..MaxUpserts :
          Writes(u) =>
              LET idx == FindIndex(integrations', upserts[u].id)
              IN  /\ idx # 0
                  /\ \E iv \in Ivs :
                        integrations'[idx].token =
                            encryptSecret(upserts[u].args.token, KeyOnFile, iv)
                  /\ integrations'[idx].token # upserts[u].args.token
                  /\ \A i \in 1..Len(upserts[u].prior) :
                        i # idx => integrations'[i].token = upserts[u].prior[i].token]_vars

\* a create with token " t" has been written under a nonce other than the one
\* of the entries saved before: the file holds the ciphertext of "t", and an
\* update that supplied token "x " has replaced the ciphertext of entry a
C27_Witness ==
    \E i \in 1..Len(integrations) :
        /\ integrations[i].id \notin {"a", "b"}
        /\ TokenIn(integrations[i]) = Plain(<<116>>)
        /\ NonceOf(integrations[i].token) # NonceOf(StoreOf(<<[id |-> "a", enabled |-> TRUE]>>)[1].token)
        /\ OnFile("a")
        /\ TokenIn(integrations[FindIndex(integrations, "a")]) = Plain(<<120>>)

\* the text holds a nonce, a whole tag and a ciphertext, and the tag is the
\* one of nonce and ciphertext under the key on file
Verifies(text) ==
    LET buf == FromBase64(text)
        iv == Subarray(buf, 0, IV_LEN)
        enc == Subarray(buf, IV_LEN + TAG_LEN, Len(buf))
    IN  /\ Len(buf) >= IV_LEN + TAG_LEN
        /\ Subarray(buf, IV_LEN, IV_LEN + TAG_LEN) = AuthTag(KeyOnFile, iv, enc)

\* the string under the ciphertext of the text
OpenedText(text) ==
    Utf8Decode(Decipher(KeyOnFile, NonceOf(text), CipherOf(text)))

\* request u is answered in this step with an enumeration
Enumerates(u) ==
    upserts[u].pc # "done" /\ upserts'[u].pc = "done" /\ upserts'[u].status = 200

C28_WitnessMiddle ==
    \E u \in 1..MaxUpserts :
        /\ upserts[u].pc = "done"
        /\ upserts[u].kind = "get"
        /\ integrations = EnumFile(<<"sealed", "bit", "sealed">>)
        /\ Len(upserts[u].entries) = 2
        /\ upserts[u].entries[1].id = "a"
        /\ upserts[u].entries[2].id = "c"

----------------------------------------------------------------------------
(* The scheduler's filters, failures and races.                            *)

\* C31: in the map of every pass, a routine that is launched has enabled =
\* true in the copy the pass read, and if it is a Time routine its weekday
\* list is empty or holds the current weekday; an enabled Time routine with an
\* empty weekday list is launched in the first pass of its HH:MM on every day
\* of the clock.
C31_DisabledAndOffDaysNeverFire ==
    [][\A p \in 1..MaxPasses :
          Deciding(p) =>
            \A i \in 1..Len(passes[p].data) :
               LET routine == passes[p].data[i]
               IN  /\ LaunchedNow(routine.id) =>
                         /\ routine.enabled
                         /\ routine.trigger.type = "time" =>
                               \/ routine.trigger.days = <<>>
                               \/ \E d \in 1..Len(routine.trigger.days) :
                                     routine.trigger.days[d] = GetDay(now)
                   /\ (/\ routine.enabled
                       /\ routine.trigger.type = "time"
                       /\ routine.trigger.days = <<>>
                       /\ routine.trigger.time = ToTimeString(now)
                       /\ routineRunTracker[routine.id] # SlotKey(now))
                         => LaunchedNow(routine.id)]_vars

\* Saturday 00:00: a pass has fired the interval routine and left alone the
\* enabled Time routine of 00:00 that is for Fridays and was fired on Friday
C31_Witness ==
    /\ GetDay(now) = 6
    /\ Len(file) = 2
    /\ file[1].enabled
    /\ file[1].trigger.type = "time"
    /\ file[1].trigger.days = <<5>>
    /\ file[1].trigger.time = ToTimeString(now)
    /\ file[1].lastRunAt = DayMs
    /\ routineRunTracker[file[1].id] # SlotKey(now)
    /\ \E h \in launched : h.id = file[2].id /\ h.slot = SlotKey(now)
    /\ ~\E h \in launched : h.id = file[1].id
    /\ \A p \in 1..MaxPasses : passes[p].pc = "idle"

\* Saturday 00:00: a pass has fired the enabled Time routine that is for
\* every day and left alone the disabled interval routine that never ran
C31_WitnessDisabled ==
    /\ GetDay(now) = 6
    /\ Len(file) = 2
    /\ file[1].trigger.days = <<>>
    /\ \E h \in launched : h.id = file[1].id /\ h.slot = SlotKey(now)
    /\ ~file[2].enabled
    /\ file[2].lastRunAt = NoRun
    /\ ~\E h \in launched : h.id = file[2].id
    /\ \A p \in 1..MaxPasses : passes[p].pc = "idle"

\* the requests of a kind that the dispatch has sent
Sent(calls) == {i \in 1..Len(dispatch.wire) : dispatch.wire[i].call \in calls}

\* C32: a dispatch that reached sendSmartThingsCommand has sent exactly one
\* command request, first; when that request was answered with a status
\* outside 200..299 the dispatch has failed with an error that carries the
\* status and the body text, and no state request was sent; a state request
\* was sent only after a success answer; a dispatch that returned has sent the
\* command, /status and /health in this order and returns the state they
\* reported with the command's result and the source; a toggle's command
\* request is capability switch, command on for a true and off for a false
\* desired state, to the device and with the source it resolved.
C32_OneCommandThenState ==
    dispatch.pc # "idle" =>
        /\ dispatch.wire = <<>> =>
              dispatch.pc = "failed" /\ dispatch.origin = "toggle" /\ ~Has(dispatch.answer)
        /\ dispatch.wire # <<>> => Sent({"command"}) = {1}
        /\ Has(dispatch.answer) /\ Val(dispatch.answer).status \notin 200..299 =>
              /\ dispatch.pc = "failed"
              /\ Val(dispatch.error).message[2] = Val(dispatch.answer).status
              /\ Val(dispatch.answer).body.kind # "unreadable" =>
                    Val(dispatch.error).message[3] = Val(dispatch.answer).body.text
              /\ Sent({"status", "health"}) = {}
        /\ Sent({"status", "health"}) # {} =>
              Has(dispatch.answer) /\ Val(dispatch.answer).status \in 200..299
        /\ dispatch.pc = "returned" =>
              /\ [i \in 1..3 |-> dispatch.wire[i].call] = <<"command", "status", "health">>
              /\ Len(dispatch.wire) = 3
              /\ \A i \in 1..3 : /\ dispatch.wire[i].device = dispatch.device
                                  /\ dispatch.wire[i].token = dispatch.wire[1].token
              /\ Val(dispatch.value) =
                    [result |-> Val(dispatch.answer).body.text,
                     state |-> [on |-> dispatch.replies[1].text = "on",
                                online |-> dispatch.replies[2].text = "ONLINE"],
                     source |-> dispatch.wire[1].token]
        /\ dispatch.origin = "toggle" /\ dispatch.wire # <<>> =>
              /\ dispatch.wire[1].capability = "switch"
              /\ dispatch.wire[1].command = IF Val(dispatch.on) THEN "on" ELSE "off"
              /\ dispatch.wire[1].token \in
                    {resolveSmartThingsToken(envToken, sources)[i].id :
                        i \in 1..Len(resolveSmartThingsToken(envToken, sources))}

\* a toggle to on has returned: command, /status and /health were sent, the
\* command was accepted with 202 and the device reads on and offline
C32_Witness ==
    /\ dispatch.pc = "returned"
    /\ dispatch.origin = "toggle"
    /\ dispatch.wire[1].command = "on"
    /\ Val(dispatch.answer).status = 202
    /\ Val(dispatch.value).state = [on |-> TRUE, online |-> FALSE]

\* a command was refused with 401 and the body "denied": the dispatch has
\* failed with both in its error after one request
C32_WitnessRefused ==
    /\ dispatch.pc = "failed"
    /\ dispatch.origin = "command"
    /\ Len(dispatch.wire) = 1
    /\ Val(dispatch.error).message = <<"SmartThings Command fehlgeschlagen", 401, "denied">>

\* C33: in every state of scheduled execution, whatever has failed before (a
\* store read or write of a pass, a missing credential, a command or a state
\* read of an action), the repeating timer of routineIntervalHandle is
\* active, no pass and no run has ended in an uncaught error, a tick starts a
\* new pass, a pass that has read can run its map, and a pass that has fired
\* can write.
C33_SchedulerSurvivesFailures ==
    /\ timers = {routineIntervalHandle}
    /\ \A p \in 1..MaxPasses : passes[p].pc \in {"idle", "decide", "write"}
    /\ \A k \in 1..MaxRuns : runs[k].pc \in {"idle", "next", "cmd", "status", "done"}
    /\ FreePasses # {} =>
          \A h \in timers :
              ENABLED (Tick(h) /\ \E p \in 1..MaxPasses :
                                    passes[p].pc = "idle" /\ passes'[p].pc = "decide")
    /\ \A p \in 1..MaxPasses :
          /\ passes[p].pc = "write" => ENABLED EvalWrite(p)
          /\ (/\ passes[p].pc = "decide"
              /\ DueCount(passes[p].data, routineRunTracker, now) <= Cardinality(FreeRuns)) =>
                ENABLED EvalDecide(p)

\* C33, step by step: a failing step of a pass ends that pass and nothing
\* else, a failing step of a run records an ok:false result and goes on to
\* the next action, and neither touches the timer.
C33_FailuresAreContained ==
    [][/\ \A p \in 1..MaxPasses :
             (passes[p].pc # "idle" /\ passes'[p].pc = "idle") =>
                 /\ \A q \in 1..MaxPasses : q # p => passes'[q] = passes[q]
                 /\ UNCHANGED timerVars
       /\ \A k \in 1..MaxRuns :
             (/\ runs[k].pc \in {"next", "cmd", "status"}
              /\ runs'[k].pc \in {"next", "done"}
              /\ runs'[k] # runs[k]
              /\ ~runs'[k].results[Len(runs'[k].results)].ok) =>
                 /\ Len(runs'[k].results) = Len(runs[k].results) + 1
                 /\ runs'[k].pc = "next" <=> runs[k].idx < Len(runs[k].actions)
                 /\ UNCHANGED <<timerVars, passes, file>>]_vars

\* the second minute: the store was reset by a failed read in the first
\* minute, an action of the first minute's run ended in a failure, and a
\* tick's pass is about to run its map
C33_Witness ==
    /\ now > DayMs
    /\ file = <<>>
    /\ \E k \in 1..MaxRuns :
          /\ runs[k].pc = "done"
          /\ runs[k].attempts \in {<<"command-failed">>, <<"status-failed">>,
                                   <<"no-credential">>}
    /\ \E p \in 1..MaxPasses : passes[p].pc = "decide"
    /\ timers = {routineIntervalHandle}

\* a pass fired the Time routine and its write failed: the tracker holds the
\* slot, the store has no lastRunAt, and a later pass has fired the interval
\* routine again in the next minute and written
C33_WitnessWriteFailed ==
    /\ now > DayMs
    /\ Len(file) = 2
    /\ file[1].lastRunAt = NoRun
    /\ routineRunTracker[file[1].id] = SlotKey(DayMs)
    /\ file[2].lastRunAt = now
    /\ \A p \in 1..MaxPasses : passes[p].pc = "idle"

(* The environment credential and the stored sources. *)

\* s names an enabled stored source
IsEnabledStored(s) == \E i \in 1..Len(sources) : sources[i].id = s /\ sources[i].enabled

\* with an enabled stored source on file, the dispatches of this step resolve
\* as the store says: without sourceId the first enabled source's credential
\* is used, with the sourceId of an enabled source that source's
StoreDecides ==
    /\ \A k \in 1..MaxRuns :
          /\ (RunDispatches(k) /\ ~Has(RunSourceId(k)) /\ SomeEnabled) =>
                 \E i \in 1..Len(sources) :
                     FirstEnabled(sources[i].id) /\ RunSentWith(k, sources[i].id)
          /\ (RunDispatches(k) /\ Has(RunSourceId(k))
                  /\ IsEnabledStored(Val(RunSourceId(k)))) =>
                 RunSentWith(k, Val(RunSourceId(k)))
    /\ \A q \in 1..MaxReqs :
          /\ (RouteDispatches(q, Absent) /\ SomeEnabled) =>
                 reqs'[q].pc = "cmd" /\ FirstEnabled(reqs'[q].src)
          /\ \A s \in {"a", "b"} :
                 (RouteDispatches(q, Some(s)) /\ IsEnabledStored(s)) =>
                     reqs'[q].pc = "cmd" /\ reqs'[q].src = s

\* C34 as stated: when at least one enabled stored source exists, a dispatch
\* without sourceId uses the first enabled stored source and a dispatch with
\* the sourceId of an enabled stored source uses that source, whether or not
\* an environment token is configured.
C34_Original_EnvOnlyAFallback == [][StoreDecides]_vars

\* C34 where no environment token is configured: the stored sources decide.
C34_StoreDecidesWithoutEnv == [][~envToken => StoreDecides]_vars

\* with sources [a disabled, b enabled] and no environment token, the command
\* of the routine's fourth action (sourceId b) is in flight with b's credential
C34_Witness ==
    /\ sources = StoredSources
    /\ ~envToken
    /\ \E k \in 1..MaxRuns :
          /\ Active(runs[k])
          /\ runs[k].pc = "cmd"
          /\ runs[k].idx = 4
          /\ runs[k].actions[4].sourceId = Some("b")
          /\ runs[k].src = "b"

(* Overlapping passes and the spacing of interval fires. *)

\* every lastRunAt stamp of routine id that a scheduler fire has left, on file
\* or in the copy of a pass that has fired and not yet written
FireStamps(id) ==
    {file[i].lastRunAt : i \in {j \in 1..Len(file) : file[j].id = id}}
    \cup UNION {{passes[q].data[i].lastRunAt :
                    i \in {j \in 1..Len(passes[q].data) : passes[q].data[j].id = id}} :
                q \in {x \in 1..MaxPasses : passes[x].pc = "write"}}

\* the step is a scheduled fire of an interval routine by pass p, and the
\* fire is at least N * 60000 ms after every fire of the routine so far
SpacedFire(p) ==
    \A i \in 1..Len(passes[p].data) :
        LET routine == passes[p].data[i]
            N == routine.trigger.everyMinutes
        IN  (routine.trigger.type = "interval" /\ LaunchedNow(routine.id)) =>
                \A stamp \in FireStamps(routine.id) :
                    stamp = NoRun \/ now - stamp >= N * 60000

\* C35 as stated: any two scheduled fires of an unedited interval routine of
\* N minutes are at least N * 60000 ms apart, over every interleaving of
\* passes, overlapping ones included.
C35_Original_IntervalFiresSpaced ==
    [][\A p \in 1..MaxPasses : Deciding(p) => SpacedFire(p)]_vars

\* C35 for a pass whose copy is still what the file holds and that decides
\* while no other pass has a write pending: its fire is spaced.
C35_SpacedWhenCopyIsCurrent ==
    [][\A p \in 1..MaxPasses :
          (/\ Deciding(p)
           /\ passes[p].data = file
           /\ \A q \in 1..MaxPasses : passes[q].pc # "write") => SpacedFire(p)]_vars

\* the routine was fired, its stamp written, and a pass has fired it again
\* exactly N minutes later and has its write pending
C35_Witness ==
    /\ Len(file) = 1
    /\ file[1].trigger.type = "interval"
    /\ file[1].lastRunAt # NoRun
    /\ now = file[1].lastRunAt + file[1].trigger.everyMinutes * 60000
    /\ \E p \in 1..MaxPasses :
          /\ passes[p].pc = "write"
          /\ passes[p].data[1].lastRunAt = now
    /\ \E h \in launched : h.id = file[1].id /\ h.k = 1

(* Requests against passes and run-now that hold an older copy. *)

\* request q is a delete that has been answered with success
DeleteReturned(q) ==
    /\ reqs[q].pc = "done"
    /\ reqs[q].kind = "delete"
    /\ reqs[q].status = 200

\* C36 as stated: once a delete has returned success the routine is not in
\* the persisted collection again and no pass fires it, whatever a pass or a
\* run-now that read the collection before the delete writes afterwards.
\* (The response of the delete is still held here, so no create has run
\* since.)
C36_Original_DeletedStaysDeleted ==
    [][\A q \in 1..MaxReqs :
          DeleteReturned(q) =>
              /\ FindIndex(file, reqs[q].id) = 0
              /\ FindIndex(file', reqs[q].id) = 0
              /\ \A p \in 1..MaxPasses :
                    (Deciding(p) /\ passes[p].data = file) => ~LaunchedNow(reqs[q].id)]_vars

\* request q is a create or an update that has been answered with success
SaveReturned(q) ==
    /\ reqs[q].pc = "done"
    /\ reqs[q].kind \in {"post", "patch"}
    /\ reqs[q].status = 200

\* what a create or an update decides of a routine
Settings(routine) ==
    <<routine.name, routine.enabled, routine.trigger, routine.actions>>

\* C37 as stated: a routine created or updated by a request that returned
\* success stays in the persisted collection with the values the request
\* wrote until a later create, update or delete changes it; no pass and no
\* run-now removes it or reverts its name, enabled flag, trigger or actions.
\* (While the response is held no other request of those kinds is handled, so
\* every step must keep the routine as it is on file.)
C37_Original_SavedRoutineStays ==
    [][\A q \in 1..MaxReqs :
          (SaveReturned(q) /\ reqs'[q] = reqs[q] /\ FindIndex(file, reqs[q].id) # 0) =>
              /\ FindIndex(file', reqs[q].id) # 0
              /\ Settings(Stored(file', reqs[q].id)) = Settings(Stored(file, reqs[q].id))]_vars

(* What a pass changes on file. *)

\* the step is one of pass p
PassSteps(p) == passes[p].pc # "idle" /\ passes'[p] # passes[p]

\* after differs from before in nothing but the lastRunAt of routines whose
\* id is in ids
OnlyStamps(before, after, ids) ==
    /\ Len(after) = Len(before)
    /\ \A i \in 1..Len(before) :
          /\ [after[i] EXCEPT !.lastRunAt = NoRun] = [before[i] EXCEPT !.lastRunAt = NoRun]
          /\ after[i].lastRunAt # before[i].lastRunAt => before[i].id \in ids

\* the routines that the copy held by pass p carries a stamp of time t for
StampedAt(p, t) ==
    {passes[p].data[i].id :
        i \in {j \in 1..Len(passes[p].data) : passes[p].data[j].lastRunAt = t}}

\* C38 as stated: a step of an evaluation pass changes nothing in the
\* persisted collection except the lastRunAt of routines the pass fired, and
\* a pass that fires no routine (one that ends at its map) writes nothing.
C38_Original_PassWritesOnlyItsStamps ==
    [][\A p \in 1..MaxPasses :
          PassSteps(p) =>
              /\ passes[p].pc = "decide" => file' = file
              /\ passes[p].pc = "write" =>
                    \E i \in 1..Len(passes[p].data) :
                        OnlyStamps(file, file', StampedAt(p, passes[p].data[i].lastRunAt))]_vars

\* C38 against the copy the pass read: the copy to be written is the copy
\* read with lastRunAt set to the time of the pass for exactly the routines
\* fired in the step, and the write puts that copy or nothing on file; a pass
\* whose map fires nothing leaves the file alone, and a pass that ends at its
\* read leaves the file alone or leaves the empty collection.
C38_PassWritesItsCopyWithStamps ==
    [][\A p \in 1..MaxPasses :
          PassSteps(p) =>
              /\ (passes[p].pc = "decide" /\ passes'[p].pc = "write") =>
                    /\ file' = file
                    /\ Len(passes'[p].data) = Len(passes[p].data)
                    /\ \A i \in 1..Len(passes[p].data) :
                          passes'[p].data[i] =
                              IF LaunchedNow(passes[p].data[i].id)
                              THEN [passes[p].data[i] EXCEPT !.lastRunAt = now]
                              ELSE passes[p].data[i]
                    /\ \E i \in 1..Len(passes[p].data) : LaunchedNow(passes[p].data[i].id)
              /\ (passes[p].pc = "decide" /\ passes'[p].pc = "idle") =>
                    /\ launched' = launched
                    /\ file' \in {file, <<>>}
              /\ passes[p].pc = "write" => file' \in {file, passes[p].data}]_vars

\* a pass that fired the interval routine alone has written: the time
\* routine carries the stamp of the startup pass, the interval routine a
\* later one
C38_Witness ==
    /\ Len(file) = 2
    /\ file[1].lastRunAt = DayMs
    /\ file[2].lastRunAt = now
    /\ now > DayMs
    /\ \A p \in 1..MaxPasses : passes[p].pc = "idle"

(* Ticks on schedule and the minute of a Time routine. *)

\* the minutes of the run
Minutes == {SlotKey(DayMs + m * MinuteMs) : m \in 0..4}

\* the clock is in minute s and the stored Time routine matches it
InMatchingMinute(s) ==
    /\ SlotKey(now) = s
    /\ \E i \in 1..Len(file) : TimeMatches(file[i], now)

\* a pass has fired the stored routine in minute s
FiredIn(s) == \E h \in launched : h.slot = s /\ h.branch = "time"

\* no Time routine was fired twice in one minute
OncePerMinute == \A h \in launched : h.branch = "time" => h.k = 1

\* C39 as stated: with a tick interval of at most 60000 ms and ticks on
\* schedule, an enabled Time routine that matches a minute in which the
\* process runs is eventually fired in that minute, and exactly once.
C39_Original_MatchingMinuteFires ==
    /\ []OncePerMinute
    /\ \A s \in Minutes :
          (routineIntervalMs <= 60000 /\ InMatchingMinute(s)) ~> FiredIn(s)

\* C39 where the tick interval and the time a pass takes to read the store
\* add up to at most one minute: the matching minute is not missed.
C39_FiresWhenReadFitsTheMinute ==
    /\ []OncePerMinute
    /\ \A s \in Minutes :
          (routineIntervalMs + ReadLatency <= 60000 /\ InMatchingMinute(s)) ~> FiredIn(s)

\* with ticks 59980 ms apart the routine was fired in its minute by a pass
\* whose read took ReadLatency, and the minute is over
C39_Witness ==
    /\ routineIntervalMs = MinuteMs - ReadLatency
    /\ \E h \in launched : h.slot # SlotKey(now) /\ h.branch = "time"
    /\ \E i \in 1..Len(file) : file[i].lastRunAt = StartAt + routineIntervalMs + ReadLatency

====
